---- MODULE Spec2Model ----
(***************************************************************************)
(* RadioAntennaEmulator, Pico firmware: the 48-bit shift-register bus and  *)
(* its bit codec (antenna_mode.py), the field commands (main.py) and the   *)
(* rail-voltage regulator with its calibration (voltage_control.py).       *)
(*                                                                         *)
(* Python lists are 0-based, TLA+ sequences 1-based: element i of a Python *)
(* list is element i+1 of the sequence that models it.                     *)
(***************************************************************************)
EXTENDS Integers, Sequences, FiniteSets, TLC

VARIABLES
    cv_n,       \* codec: the number whose representations are converted
    cv_out,     \* codec: result of convert_to_bits per representation
    cv_raw,     \* codec: an arbitrary caller-supplied datum
    cv_rawout,  \* codec: result of convert_to_bits(cv_raw)
    hw,         \* the register chain and its five lines (config.py:49-53)
    hist,       \* the commands executed so far, oldest first
    config,             \* the values main.py and voltage_control.py import
                        \* from config and config.py does not define
    target_voltages,    \* main.py:93, per rail, in mV
    current_wipers,     \* main.py:94, per rail
    filtered_voltages,  \* main.py:95, per rail, in mV
    calibrating,        \* main.py:96
    auto_control,       \* main.py:97, per rail
    calibration,        \* voltage_control.py:23-26, _calibration
    calFile,            \* voltage_calibration.json: present, data, writes
    pots,               \* the wiper each potentiometer was last set to
    cal,                \* the calibrate command in progress, if any
    lastOp,             \* the operation executed last and what it wrote
    tick,               \* the scheduler's position in voltage_control_step
    nticks, ncmds,      \* regulation ticks and rail commands executed
    leds,               \* config.py:33, the RGB bits of the four status LEDs
    ledhw,              \* the LED shift register and its lines (config.py:21-25)
    sched,              \* the scheduler context: main()'s loop (main.py:487-523)
    upd,                \* the field update the command context is executing
    listener,           \* the command context: command_listener (main.py:414-432)
    boot,               \* the wiring table in force and how far startup has come
    spi,                \* the potentiometer interface (config.py:85-86) and the
                        \* set_wiper call each context is executing
    adc,                \* the rail ADC as the settling loops of a calibration
                        \* sample it, and the samples of the current loop
    auto_update_led     \* main.py:98: per indicator, whether update_leds sets
                        \* its colour, and the colour the last setled gave it

codecVars == <<cv_n, cv_out, cv_raw, cv_rawout>>
busVars == <<hw, hist>>
railVars == <<config, target_voltages, current_wipers, filtered_voltages, calibrating,
              auto_control, calibration, calFile, pots, cal, lastOp, tick, nticks, ncmds>>
ctxVars == <<leds, ledhw, sched, upd, listener, boot, spi, adc, auto_update_led>>
vars == <<codecVars, busVars, railVars, ctxVars>>

\* ------------------------------------------------------------------------
\* Python values
\* ------------------------------------------------------------------------

\* antenna_mode.py:110 range(48): the width of the register chain.
NBITS == 48

\* Python integers are unbounded; they are modelled as little-endian
\* sequences of base-2^24 limbs (value = SUM v[k] * LimbBase^(k-1)).
LimbBits == 4 * 6
LimbBase == 2 ^ LimbBits

RECURSIVE Pow2(_)
Pow2(k) == IF k = 0 THEN 1 ELSE 2 * Pow2(k - 1)

\* limb k (0-based) of a big natural, 0 beyond its length
Limb(v, k) == IF k + 1 <= Len(v) THEN v[k + 1] ELSE 0

\* (val >> i) & 1
BitOf(v, i) == (Limb(v, i \div LimbBits) \div Pow2(i % LimbBits)) % 2

\* val * m + c for small m, c (used by int(hp, 16): m = 16, c a digit)
RECURSIVE MulAdd(_, _, _)
MulAdd(v, m, c) ==
    IF v = <<>> THEN (IF c = 0 THEN <<>> ELSE <<c>>)
    ELSE LET t == Head(v) * m + c
         IN  <<t % LimbBase>> \o MulAdd(Tail(v), m, t \div LimbBase)

\* data & ((1<<48)-1): the two low limbs
Mask48(v) == <<Limb(v, 0), Limb(v, 1)>>

\* ------------------------------------------------------------------------
\* Strings: sequences of one-character strings
\* ------------------------------------------------------------------------

HexDigits == <<"0","1","2","3","4","5","6","7","8","9","a","b","c","d","e","f">>
UpperOf == [c \in {"a","b","c","d","e","f","x"} |->
              CASE c = "a" -> "A" [] c = "b" -> "B" [] c = "c" -> "C"
                [] c = "d" -> "D" [] c = "e" -> "E" [] c = "f" -> "F"
                [] c = "x" -> "X"]

\* str.lower() on one character
LowerChar(c) ==
    IF \E l \in DOMAIN UpperOf : UpperOf[l] = c
    THEN CHOOSE l \in DOMAIN UpperOf : UpperOf[l] = c
    ELSE c

Lower(s) == [k \in 1..Len(s) |-> LowerChar(s[k])]

\* str.strip(): leading and trailing blanks removed
RECURSIVE LStrip(_)
LStrip(s) == IF s # <<>> /\ Head(s) = " " THEN LStrip(Tail(s)) ELSE s
RECURSIVE RStrip(_)
RStrip(s) == IF s # <<>> /\ s[Len(s)] = " " THEN RStrip(SubSeq(s, 1, Len(s) - 1)) ELSE s
Strip(s) == RStrip(LStrip(s))

Reverse(s) == [k \in 1..Len(s) |-> s[Len(s) + 1 - k]]

RECURSIVE Repeat(_, _)
Repeat(c, n) == IF n <= 0 THEN <<>> ELSE <<c>> \o Repeat(c, n - 1)

IsHexDigit(c) == \E k \in 1..Len(HexDigits) : HexDigits[k] = c
HexVal(c) == (CHOOSE k \in 1..Len(HexDigits) : HexDigits[k] = c) - 1

\* int(hp, 16) for a string of hex digits, most significant first
RECURSIVE ParseHex(_, _)
ParseHex(hp, acc) ==
    IF hp = <<>> THEN acc ELSE ParseHex(Tail(hp), MulAdd(acc, Len(HexDigits), HexVal(Head(hp))))

\* ------------------------------------------------------------------------
\* convert_to_bits (antenna_mode.py:100-122)
\* ------------------------------------------------------------------------
\* A datum is a tagged Python value:
\*   [t |-> "list", v |-> <<elements>>]   list or tuple
\*   [t |-> "int",  n |-> limbs]          non-negative int
\*   [t |-> "str",  s |-> characters]
\*   [t |-> "other"]                      any other type (float, None, dict)
\* The result is [ok |-> TRUE, bits |-> 48 values] or the raised error.

ValueError(msg) == [ok |-> FALSE, err |-> "ValueError", msg |-> msg]
Ok(b) == [ok |-> TRUE, bits |-> b]

\* a variant with the most significant bit first
ExpandMSBFirst(val) == [k \in 1..NBITS |-> BitOf(val, NBITS - k)]

\* [(val>>i)&1 for i in range(48)]
ExpandLSBFirst(val) == [k \in 1..NBITS |-> BitOf(val, k - 1)]

\* s[-48:]
LastN(s, n) == IF Len(s) <= n THEN s ELSE SubSeq(s, Len(s) - n + 1, Len(s))

ListBranch(v) ==
    IF Len(v) # NBITS \/ \E k \in 1..Len(v) : v[k] \notin {0, 1}
    THEN ValueError("List input must be 48 elements of 0 or 1.")
    ELSE Ok(v)

IntBranch(v) == Ok(ExpandLSBFirst(Mask48(v)))

HexBranch(hp) ==
    LET padded == IF Len(hp) < 12 THEN Repeat("0", 12 - Len(hp)) \o hp ELSE hp
    IN  IF \E k \in 1..Len(padded) : ~IsHexDigit(padded[k])
        THEN ValueError("invalid literal for int() with base 16")
        ELSE Ok(ExpandLSBFirst(ParseHex(padded, <<>>)))

\* a variant that keeps the first 48 characters
BinBranchFirst48(s) ==
    LET bp  == SubSeq(s, 1, IF Len(s) < NBITS THEN Len(s) ELSE NBITS)
        pad == IF Len(bp) < NBITS THEN Repeat("0", NBITS - Len(bp)) \o bp ELSE bp
        rev == Reverse(pad)
    IN  Ok([k \in 1..NBITS |-> IF rev[k] = "1" THEN 1 ELSE 0])
BinBranch(s) ==
    LET bp  == LastN(s, NBITS)
        pad == IF Len(bp) < NBITS THEN Repeat("0", NBITS - Len(bp)) \o bp ELSE bp
        rev == Reverse(pad)
    IN  Ok([k \in 1..NBITS |-> IF rev[k] = "1" THEN 1 ELSE 0])

StartsWith0x(s) == Len(s) >= 2 /\ s[1] = "0" /\ s[2] = "x"

StrBranch(raw) ==
    LET s == Lower(Strip(raw))
    IN  IF StartsWith0x(s) THEN HexBranch(SubSeq(s, 3, Len(s)))
        ELSE IF \A k \in 1..Len(s) : s[k] \in {"0", "1"} THEN BinBranch(s)
        ELSE ValueError("Data must be int or hex/bin string")

convert_to_bits(data) ==
    CASE data.t = "list" -> ListBranch(data.v)
      [] data.t = "int"  -> IntBranch(data.n)
      [] data.t = "str"  -> StrBranch(data.s)
      [] OTHER           -> ValueError("Data must be int or hex/bin string")

\* ------------------------------------------------------------------------
\* Codec specification: convert_to_bits applied to the representations of
\* one number (int, 0x-hex in either case, MSB-first binary string) and to
\* arbitrary caller data.
\* ------------------------------------------------------------------------

NotRun == [ok |-> FALSE, err |-> "not run"]

Forms == {"int", "hex", "HEX", "bin"}

\* The bits of a number, most significant first, without leading zeros
\* ("0" for zero): what format(n, 'b') prints.
RECURSIVE DropLeadingZeros(_)
DropLeadingZeros(b) ==
    IF Len(b) > 1 /\ Head(b) = 0 THEN DropLeadingZeros(Tail(b)) ELSE b

AllBitsMSB(v) ==
    LET w == LimbBits * (IF Len(v) = 0 THEN 1 ELSE Len(v))
    IN  [k \in 1..w |-> BitOf(v, w - k)]

BinOf(v) ==
    LET b == DropLeadingZeros(AllBitsMSB(v))
    IN  [k \in 1..Len(b) |-> IF b[k] = 1 THEN "1" ELSE "0"]

\* The nibbles of a number, most significant first, without leading zeros:
\* what format(n, 'x') prints.
AllNibblesMSB(v) ==
    LET w == (LimbBits \div 4) * (IF Len(v) = 0 THEN 1 ELSE Len(v))
    IN  [k \in 1..w |->
           LET lowbit == 4 * (w - k)
           IN  BitOf(v, lowbit) + 2 * BitOf(v, lowbit + 1)
               + 4 * BitOf(v, lowbit + 2) + 8 * BitOf(v, lowbit + 3)]

HexOf(v) ==
    LET d == DropLeadingZeros(AllNibblesMSB(v))
    IN  [k \in 1..Len(d) |-> HexDigits[d[k] + 1]]

Upper(s) == [k \in 1..Len(s) |-> IF s[k] \in DOMAIN UpperOf THEN UpperOf[s[k]] ELSE s[k]]

\* the datum handed to convert_to_bits for each representation of n
FormDatum(form, n) ==
    CASE form = "int" -> [t |-> "int", n |-> n]
      [] form = "hex" -> [t |-> "str", s |-> <<"0", "x">> \o HexOf(n)]
      [] form = "HEX" -> [t |-> "str", s |-> <<"0", "X">> \o Upper(HexOf(n))]
      [] form = "bin" -> [t |-> "str", s |-> BinOf(n)]

\* sample numbers: below 2^24, below 2^48, and 49 bits and more
LowLimbs == {0, 1, 10855845, LimbBase - 1}
HighLimbs == {0, 1, 5921370, LimbBase - 1}
TopLimbs == {0, 1, 31}
CodecNumbers ==
    {<<lo, hi, top>> : lo \in LowLimbs, hi \in HighLimbs, top \in TopLimbs}

\* sample 48-bit vectors
Zeros == [k \in 1..NBITS |-> 0]
Ones == [k \in 1..NBITS |-> 1]
OneHot(i) == [k \in 1..NBITS |-> IF k = i + 1 THEN 1 ELSE 0]
Mixed == [k \in 1..NBITS |-> IF (k * k) % 7 < 3 THEN 1 ELSE 0]
Vectors == {Zeros, Ones, Mixed} \cup {OneHot(i) : i \in 0..(NBITS - 1)}

\* caller data that convert_to_bits must reject
BadData ==
    {[t |-> "list", v |-> SubSeq(Ones, 1, NBITS - 1)],
     [t |-> "list", v |-> Ones \o <<0>>],
     [t |-> "list", v |-> <<>>],
     [t |-> "list", v |-> [Zeros EXCEPT ![NBITS] = 2]],
     [t |-> "list", v |-> [Ones EXCEPT ![1] = -1]],
     [t |-> "str", s |-> <<"0", "x", "g", "1">>],
     [t |-> "str", s |-> <<"1", "0", "2">>],
     [t |-> "str", s |-> <<"f", "f">>],
     [t |-> "str", s |-> <<"1", " ", "0">>],
     [t |-> "other"]}

\* caller data it accepts besides the numbers' representations
GoodData ==
    {[t |-> "list", v |-> v] : v \in Vectors}
    \cup {[t |-> "str", s |-> <<>>],
          [t |-> "str", s |-> <<" ", "0", "X", "1", "F", " ">>],
          [t |-> "str", s |-> <<"0", "x">>],
          [t |-> "str", s |-> <<" ", "1", "0", "1">>]}

NoData == [t |-> "none"]

\* a run converts either the representations of one number or one datum
CodecInit ==
    /\ cv_out = [f \in Forms |-> NotRun]
    /\ cv_rawout = NotRun
    /\ \/ cv_n \in CodecNumbers /\ cv_raw = NoData
       \/ cv_n = <<>> /\ cv_raw \in GoodData \cup BadData

ConvertForm(form) ==
    /\ UNCHANGED <<busVars, railVars, ctxVars>>
    /\ cv_raw = NoData
    /\ cv_out[form] = NotRun
    /\ cv_out' = [cv_out EXCEPT ![form] = convert_to_bits(FormDatum(form, cv_n))]
    /\ UNCHANGED <<cv_n, cv_raw, cv_rawout>>

ConvertRaw ==
    /\ UNCHANGED <<busVars, railVars, ctxVars>>
    /\ cv_raw # NoData
    /\ cv_rawout = NotRun
    /\ cv_rawout' = convert_to_bits(cv_raw)
    /\ UNCHANGED <<cv_n, cv_out, cv_raw>>

CodecNext ==
    \/ \E form \in Forms : ConvertForm(form)
    \/ ConvertRaw

\* ------------------------------------------------------------------------
\* The register chain (config.py:47-53): six chained 8-bit shift registers
\* with output latches.  sh is the shift path, sh[1] the stage next to the
\* serial input and sh[NBITS] the last stage, whose level is the serial
\* output; lat is the latch that drives the parallel outputs.  drives,
\* shifts and latches count the line writes, shift-clock rising edges and
\* latch-clock rising edges since the running command began.
\* ------------------------------------------------------------------------

\* SR_SER.value(b)
DriveSER(h, b) == [h EXCEPT !.ser = b, !.drives = @ + 1]

\* SR_OE.value(v)
DriveOE(h, v) == [h EXCEPT !.oe = v, !.drives = @ + 1]

\* SR_SRCLK.value(v): a rising edge moves every stage one place towards
\* the serial output and takes the serial-data level into the first stage
DriveSRCLK(h, v) ==
    IF h.srclk = 0 /\ v = 1
    THEN [h EXCEPT !.srclk = 1, !.drives = @ + 1, !.shifts = @ + 1,
                   !.sh = <<h.ser>> \o SubSeq(h.sh, 1, NBITS - 1)]
    ELSE [h EXCEPT !.srclk = v, !.drives = @ + 1]

\* SR_RCLK.value(v): a rising edge copies the shift path into the latch
DriveRCLK(h, v) ==
    IF h.rclk = 0 /\ v = 1
    THEN [h EXCEPT !.rclk = 1, !.drives = @ + 1, !.latches = @ + 1, !.lat = h.sh]
    ELSE [h EXCEPT !.rclk = v, !.drives = @ + 1]

\* SR_OUT.value()
SampleOUT(h) == h.sh[NBITS]

\* the pattern on the parallel outputs as a bit vector, stage 0 first: the
\* first bit shifted in ends in the last stage of the chain
Latched(h) == Reverse(h.lat)
ShiftPath(h) == Reverse(h.sh)

\* Let(e, F) is F(e) with e brought to a value first, as a statement
\* sequence does: each step of a handler works on the result of the one
\* before it.
Let(e, F(_)) == CHOOSE y \in {F(x) : x \in {e}} : TRUE

\* antenna_mode.py:129-131, one iteration of the shift loop
ShiftOutStep(h, b) ==
    Let(DriveSER(h, b), LAMBDA h1 :
    Let(DriveSRCLK(h1, 1), LAMBDA h2 : DriveSRCLK(h2, 0)))

\* antenna_mode.py:129-131, the shift loop: iterations lo..hi-1 (0-based),
\* as those of the first half followed by those of the second half
RECURSIVE ShiftOut(_, _, _, _)
ShiftOut(h, bits, lo, hi) ==
    IF hi <= lo THEN h
    ELSE IF hi = lo + 1 THEN ShiftOutStep(h, bits[lo + 1])
    ELSE Let(ShiftOut(h, bits, lo, (lo + hi) \div 2), LAMBDA h1 :
             ShiftOut(h1, bits, (lo + hi) \div 2, hi))

\* antenna_mode.py:128-132, update_shift_registers after the conversion
WriteBits(h, bits) ==
    Let(DriveOE(h, 0), LAMBDA h1 :
    Let(DriveRCLK(h1, 0), LAMBDA h2 :
    Let(ShiftOut(h2, bits, 0, Len(bits)), LAMBDA h3 :
    Let(DriveRCLK(h3, 1), LAMBDA h4 : DriveRCLK(h4, 0)))))

\* a variant that prepares the lines before it converts the data
update_shift_registers_lines_first(h, data) ==
    Let(DriveOE(h, 0), LAMBDA h1 :
    Let(DriveRCLK(h1, 0), LAMBDA h2 :
    Let(convert_to_bits(data), LAMBDA c :
        IF c.ok THEN [ok |-> TRUE, hw |-> WriteBits(h, c.bits)]
        ELSE [ok |-> FALSE, hw |-> h2])))

\* update_shift_registers(data): [ok, hw]; a conversion error is raised
\* before any line is driven
update_shift_registers(h, data) ==
    Let(convert_to_bits(data), LAMBDA c :
        IF c.ok THEN [ok |-> TRUE, hw |-> WriteBits(h, c.bits)]
        ELSE [ok |-> FALSE, hw |-> h])

\* a variant that puts each sample in front of those taken before
SampleInStepPrepend(r) ==
    Let(DriveSRCLK(r.hw, 1), LAMBDA h1 :
        [bits |-> <<SampleOUT(r.hw)>> \o r.bits, hw |-> DriveSRCLK(h1, 0)])

\* antenna_mode.py:138-139, one iteration of the sampling loop
SampleInStep(r) ==
    Let(DriveSRCLK(r.hw, 1), LAMBDA h1 :
        [bits |-> Append(r.bits, SampleOUT(r.hw)), hw |-> DriveSRCLK(h1, 0)])

\* antenna_mode.py:137-139, the sampling loop: n iterations on r = [bits, hw]
RECURSIVE SampleIn(_, _)
SampleIn(r, n) ==
    IF n <= 0 THEN r
    ELSE IF n = 1 THEN SampleInStep(r)
    ELSE Let(SampleIn(r, n \div 2), LAMBDA r1 : SampleIn(r1, n - n \div 2))

\* a variant without the restoring write of lines 140-145
read_shift_registers_no_restore(h) ==
    Let(DriveRCLK(h, 1), LAMBDA h1 :
    Let(DriveRCLK(h1, 0), LAMBDA h2 :
        SampleIn([bits |-> <<>>, hw |-> h2], NBITS)))

\* read_shift_registers(): [bits, hw]
read_shift_registers(h) ==
    Let(DriveRCLK(h, 1), LAMBDA h1 :
    Let(DriveRCLK(h1, 0), LAMBDA h2 :
    Let(SampleIn([bits |-> <<>>, hw |-> h2], NBITS), LAMBDA r :
        [bits |-> r.bits, hw |-> WriteBits(r.hw, r.bits)])))

\* ------------------------------------------------------------------------
\* Stage map and field groups (antenna_mode.py:18-91)
\* ------------------------------------------------------------------------

\* antenna_mode.py:23-28 (the second assignment is the one in force)
_raw == <<3, 34, 35, 18, 1, 2, 37, 20, 38, 21, 4, 39, 22, 5, 23, 6, 40, 24, 7,
          41, 25, 42, 9, 26, 43, 10, 27, 11, 44, 28, 12, 45, 29, 13, 46, 30, 14, 47, 15,
          31, 48, 16, 32, 49, 17, 33, 50,
          8>>

\* antenna_mode.py:31-32: rev = _raw[::-1]; STAGE_TO_PIN = rev.
\* STAGE_TO_PIN[st + 1] is the pin of stage st.
STAGE_TO_PIN == Reverse(_raw)

\* A signal name is modelled by its prefix (the text before the first '_')
\* and its sort key: int(name.split('_')[1]) for the numbered fields; for the
\* two power-enable names, which are sorted as strings, the digit at which
\* 'PE_3P3V_EN' and 'PE_8P0V_EN' first differ.
Sig(f, n) == [f |-> f, n |-> n]

\* antenna_mode.py:38-46
PIN_TO_SIGNAL ==
    [p \in 1..50 |->
      CASE p = 1  -> Sig("SS", 4)  [] p = 2  -> Sig("SS", 2)  [] p = 3  -> Sig("SS", 1)
        [] p = 4  -> Sig("AT", 2)  [] p = 5  -> Sig("AT", 1)  [] p = 6  -> Sig("DGND", 0)
        [] p = 7  -> Sig("DGND", 0) [] p = 8  -> Sig("SENS", 0)
        [] p = 9  -> Sig("AZ", 23) [] p = 10 -> Sig("AZ", 21) [] p = 11 -> Sig("AZ", 20)
        [] p = 12 -> Sig("AZ", 18) [] p = 13 -> Sig("DGND", 0) [] p = 14 -> Sig("AZ", 16)
        [] p = 15 -> Sig("AZ", 15) [] p = 16 -> Sig("AZ", 13) [] p = 17 -> Sig("AZ", 12)
        [] p = 18 -> Sig("SS", 3)  [] p = 19 -> Sig("IF", 0)  [] p = 20 -> Sig("SS", 0)
        [] p = 21 -> Sig("FM", 3)  [] p = 22 -> Sig("AT", 0)  [] p = 23 -> Sig("FM", 0)
        [] p = 24 -> Sig("DGND", 0) [] p = 25 -> Sig("EL", 0) [] p = 26 -> Sig("AZ", 22)
        [] p = 27 -> Sig("AZ", 9)  [] p = 28 -> Sig("AZ", 19) [] p = 29 -> Sig("AZ", 6)
        [] p = 30 -> Sig("AZ", 17) [] p = 31 -> Sig("AZ", 4)  [] p = 32 -> Sig("AZ", 14)
        [] p = 33 -> Sig("AZ", 1)  [] p = 34 -> Sig("PE", 8)  [] p = 35 -> Sig("PE", 3)
        [] p = 36 -> Sig("IF", 1)  [] p = 37 -> Sig("DGND", 0) [] p = 38 -> Sig("FM", 2)
        [] p = 39 -> Sig("FM", 1)  [] p = 40 -> Sig("DGND", 0) [] p = 41 -> Sig("EL", 1)
        [] p = 42 -> Sig("AZ", 11) [] p = 43 -> Sig("AZ", 10) [] p = 44 -> Sig("AZ", 8)
        [] p = 45 -> Sig("AZ", 7)  [] p = 46 -> Sig("DGND", 0) [] p = 47 -> Sig("AZ", 5)
        [] p = 48 -> Sig("AZ", 3)  [] p = 49 -> Sig("AZ", 2)  [] p = 50 -> Sig("AZ", 0)]

\* a variant that looks the stage number up as if it were the pin number
STAGE_TO_SIGNAL_by_index == [k \in 1..Len(STAGE_TO_PIN) |-> PIN_TO_SIGNAL[k]]

\* antenna_mode.py:59
STAGE_TO_SIGNAL == [k \in 1..Len(STAGE_TO_PIN) |-> PIN_TO_SIGNAL[STAGE_TO_PIN[k]]]

\* a variant that keeps the stages in the order they are enumerated
InsertInStageOrder(sorted, st) == Append(sorted, st)

\* sorted(..., key=...): insertion of st into an ascending list, after the
\* entries whose key is not larger (the sort is stable)
RECURSIVE InsertByKey(_, _)
InsertByKey(sorted, st) ==
    IF sorted = <<>> THEN <<st>>
    ELSE IF STAGE_TO_SIGNAL[Head(sorted) + 1].n <= STAGE_TO_SIGNAL[st + 1].n
         THEN <<Head(sorted)>> \o InsertByKey(Tail(sorted), st)
         ELSE <<st>> \o sorted

\* antenna_mode.py:63-91: the stages (0-based) whose signal starts with the
\* prefix, in enumeration order from stage k on, sorted by key
RECURSIVE StagesFrom(_, _, _)
StagesFrom(prefix, st, acc) ==
    IF st >= Len(STAGE_TO_SIGNAL) THEN acc
    ELSE StagesFrom(prefix, st + 1,
                    IF STAGE_TO_SIGNAL[st + 1].f = prefix THEN InsertByKey(acc, st) ELSE acc)

AZ_STAGES == StagesFrom("AZ", 0, <<>>)
EL_STAGES == StagesFrom("EL", 0, <<>>)
FM_STAGES == StagesFrom("FM", 0, <<>>)
AT_STAGES == StagesFrom("AT", 0, <<>>)
PE_STAGES == StagesFrom("PE", 0, <<>>)
SS_STAGES == StagesFrom("SS", 0, <<>>)

Fields == <<"AZ", "EL", "FM", "AT", "PE", "SS">>
FieldSet == {Fields[k] : k \in 1..Len(Fields)}

STAGES(F) ==
    CASE F = "AZ" -> AZ_STAGES [] F = "EL" -> EL_STAGES [] F = "FM" -> FM_STAGES
      [] F = "AT" -> AT_STAGES [] F = "PE" -> PE_STAGES [] F = "SS" -> SS_STAGES

\* ------------------------------------------------------------------------
\* Pattern builder and read helpers (antenna_mode.py:149-205)
\* ------------------------------------------------------------------------

\* an optional value: None, or Some(v)
None == <<>>
Some(v) == <<v>>

\* a variant that takes the bits of val from the high end
RECURSIVE OverlayMSB(_, _, _, _)
OverlayMSB(pat, stages, val, bn) ==
    IF bn >= Len(stages) THEN pat
    ELSE Let([pat EXCEPT ![stages[bn + 1] + 1] = (val \div Pow2(Len(stages) - 1 - bn)) % 2],
             LAMBDA p1 : OverlayMSB(p1, stages, val, bn + 1))

\* for bn, st in enumerate(stages): pat[st] = (val >> bn) & 1
RECURSIVE Overlay(_, _, _, _)
Overlay(pat, stages, val, bn) ==
    IF bn >= Len(stages) THEN pat
    ELSE Let([pat EXCEPT ![stages[bn + 1] + 1] = (val \div Pow2(bn)) % 2], LAMBDA p1 :
             Overlay(p1, stages, val, bn + 1))

\* a variant that overlays a block on an empty pattern
OverlayOnZeros(pat, stages, val) == IF val = None THEN pat ELSE Overlay(Zeros, stages, val[1], 0)

\* if X is not None: the overlay of block X
OverlayIf(pat, stages, val) == IF val = None THEN pat ELSE Overlay(pat, stages, val[1], 0)

\* a variant that overlays the blocks on an empty pattern instead of the
\* pattern read from the chain
build_cpld_pattern_from_zeros(h, vals) ==
    Let(read_shift_registers(h), LAMBDA r :
    Let(OverlayIf(Zeros, AZ_STAGES, vals["AZ"]), LAMBDA p1 :
    Let(OverlayIf(p1, EL_STAGES, vals["EL"]), LAMBDA p2 :
    Let(OverlayIf(p2, FM_STAGES, vals["FM"]), LAMBDA p3 :
    Let(OverlayIf(p3, AT_STAGES, vals["AT"]), LAMBDA p4 :
    Let(OverlayIf(p4, SS_STAGES, vals["SS"]), LAMBDA p5 :
        [pat |-> OverlayIf(p5, PE_STAGES, vals["PE"]), hw |-> r.hw]))))))

\* build_cpld_pattern: vals maps each field to a value or None; the blocks
\* are applied in the order AZ, EL, FM, AT, SS, PE.  [pat, hw]
build_cpld_pattern(h, vals) ==
    Let(read_shift_registers(h), LAMBDA r :
    Let(OverlayIf(r.bits, AZ_STAGES, vals["AZ"]), LAMBDA p1 :
    Let(OverlayIf(p1, EL_STAGES, vals["EL"]), LAMBDA p2 :
    Let(OverlayIf(p2, FM_STAGES, vals["FM"]), LAMBDA p3 :
    Let(OverlayIf(p3, AT_STAGES, vals["AT"]), LAMBDA p4 :
    Let(OverlayIf(p4, SS_STAGES, vals["SS"]), LAMBDA p5 :
        [pat |-> OverlayIf(p5, PE_STAGES, vals["PE"]), hw |-> r.hw]))))))

\* sum(read_shift_registers()[st] << i for i, st in enumerate(stages)):
\* the generator reads the bus once for every stage of the group.  The
\* terms lo..hi-1 (0-based), as those of the first half followed by those
\* of the second half: [val, hw]
RECURSIVE SumReads(_, _, _, _)
SumReads(h, stages, lo, hi) ==
    IF hi <= lo THEN [val |-> 0, hw |-> h]
    ELSE IF hi = lo + 1
    THEN Let(read_shift_registers(h), LAMBDA r :
             [val |-> r.bits[stages[lo + 1] + 1] * Pow2(lo), hw |-> r.hw])
    ELSE Let(SumReads(h, stages, lo, (lo + hi) \div 2), LAMBDA a :
         Let(SumReads(a.hw, stages, (lo + hi) \div 2, hi), LAMBDA b :
             [val |-> a.val + b.val, hw |-> b.hw]))

\* read_az .. read_ss: [val, hw]
read_field(h, F) == SumReads(h, STAGES(F), 0, Len(STAGES(F)))

\* ------------------------------------------------------------------------
\* Command handlers on the register chain (main.py:191-372)
\* ------------------------------------------------------------------------

\* a command argument: the text of an integer n, or text that int(value, 0)
\* rejects
IntText(n) == [int |-> TRUE, n |-> n]
NotAnInt == [int |-> FALSE]

\* main.py:222, 238, 254, 270, 292: the exclusive upper limit each handler
\* tests; command_setaz (main.py:198-217) tests none
RangeLimit == [F \in FieldSet \ {"AZ"} |->
                 CASE F = "EL" -> 4 [] F = "FM" -> 16 [] F = "AT" -> 8
                   [] F = "PE" -> 4 [] F = "SS" -> 32]

RangeChecked(F) == F \in DOMAIN RangeLimit

\* the reads of the fields a handler preserves, in the order AZ..SS:
\* [vals, hw] with vals[G] the value read for G
RECURSIVE ReadOthers(_, _, _, _)
ReadOthers(h, F, k, vals) ==
    IF k > Len(Fields) THEN [vals |-> vals, hw |-> h]
    ELSE IF Fields[k] = F THEN ReadOthers(h, F, k + 1, vals)
    ELSE Let(read_field(h, Fields[k]), LAMBDA r :
         Let([vals EXCEPT ![Fields[k]] = Some(r.val)], LAMBDA vals1 :
             ReadOthers(r.hw, F, k + 1, vals1)))

\* at the start of a command the per-command counters are zero
Begin(h) == [h EXCEPT !.drives = 0, !.shifts = 0, !.latches = 0]

\* command_setaz .. command_setss with argument arg: [ok, hw]
command_set(h, F, arg) ==
    IF ~arg.int THEN [ok |-> FALSE, hw |-> h]
    ELSE IF RangeChecked(F) /\ ~(0 <= arg.n /\ arg.n < RangeLimit[F]) THEN [ok |-> FALSE, hw |-> h]
    ELSE Let([G \in FieldSet |-> IF G = F THEN Some(arg.n) ELSE None], LAMBDA mine :
         Let(ReadOthers(h, F, 1, mine), LAMBDA cur :
         Let(build_cpld_pattern(cur.hw, cur.vals), LAMBDA b :
             update_shift_registers(b.hw, [t |-> "list", v |-> b.pat]))))

\* one executed command as recorded in hist
Entry(cmd, f, arg, ok, ret, before) ==
    [cmd |-> cmd, f |-> f, arg |-> arg, ok |-> ok, ret |-> ret, before |-> before]

\* ------------------------------------------------------------------------
\* Register specifications.  The command context executes one command at a
\* time (main.py:414-432); each action is one whole handler.
\* ------------------------------------------------------------------------

\* the longest command sequence explored
MaxCmds == 2

\* register contents at the start: the chain holds what the last completed
\* bus transaction left in it, shift path and latch alike
IdleBus(p, ser) ==
    [ser |-> ser, oe |-> 0, srclk |-> 0, rclk |-> 0,
     sh |-> Reverse(p), lat |-> Reverse(p),
     drives |-> 0, shifts |-> 0, latches |-> 0]

BusInit ==
    /\ \E p \in {Mixed, Ones}, ser \in {0, 1} : hw = IdleBus(p, ser)
    /\ hist = <<>>

FieldInit ==
    /\ hw \in {IdleBus(Mixed, 0), IdleBus(Ones, 1)}
    /\ hist = <<>>

Width(F) == Len(STAGES(F))

\* 0b...0101 on w bits
RECURSIVE Alternating(_)
Alternating(w) == IF w <= 0 THEN 0 ELSE (IF w % 2 = 1 THEN Pow2(w - 1) ELSE 0) + Alternating(w - 1)

\* arguments inside the field's range, and outside it
GoodArgs(F) == {IntText(n) : n \in {Alternating(Width(F)), Pow2(Width(F)) - 1}}
BadArgs(F) == {IntText(Pow2(Width(F))), IntText(-1), NotAnInt}

\* command_setaz .. command_setss
CmdSet(F, arg) ==
    /\ UNCHANGED <<codecVars, railVars, ctxVars>>
    /\ Len(hist) < MaxCmds
    /\ \E r \in {command_set(Begin(hw), F, arg)} :
           /\ hw' = r.hw
           /\ hist' = Append(hist, Entry("set", F, arg, r.ok, None, Latched(hw)))

\* command_readaz .. command_readss
CmdRead(F) ==
    /\ UNCHANGED <<codecVars, railVars, ctxVars>>
    /\ Len(hist) < MaxCmds
    /\ \E r \in {read_field(Begin(hw), F)} :
           /\ hw' = r.hw
           /\ hist' = Append(hist, Entry("read", F, None, TRUE, Some(r.val), Latched(hw)))

\* command_cpld_write (main.py:191-196)
CmdCpldWrite(data) ==
    /\ UNCHANGED <<codecVars, railVars, ctxVars>>
    /\ Len(hist) < MaxCmds
    /\ \E r \in {update_shift_registers(Begin(hw), data)} :
           /\ hw' = r.hw
           /\ hist' = Append(hist, Entry("cpld_write", "", data, r.ok, None, Latched(hw)))

\* int(s, 2) for 24 binary digits, the first digit weighing most
RECURSIVE ParseBin(_)
ParseBin(s) == IF s = <<>> THEN 0 ELSE 2 * ParseBin(SubSeq(s, 1, Len(s) - 1)) + s[Len(s)]

\* int(''.join(str(b) for b in v), 2) for 48 digits, as the limbs of the
\* number: the low limb is made of the last 24 digits
IntOfDigits(v) == <<ParseBin(SubSeq(v, LimbBits + 1, NBITS)), ParseBin(SubSeq(v, 1, LimbBits))>>

\* main.py:324-325: bits = ''.join(str(b) for b in pat); val = int(bits, 2)
readcpld_value(pat) == IntOfDigits(pat)

\* command_readcpld (main.py:322-329): the vector read_shift_registers
\* returns, and the number printed as "CPLD full"
CmdReadCpld ==
    /\ UNCHANGED <<codecVars, railVars, ctxVars>>
    /\ Len(hist) < MaxCmds
    /\ \E r \in {read_shift_registers(Begin(hw))} :
           /\ hw' = r.hw
           /\ hist' = Append(hist, [cmd |-> "readcpld", f |-> "", arg |-> None, ok |-> TRUE,
                                    ret |-> r.bits, before |-> Latched(hw),
                                    val |-> readcpld_value(r.bits)])

\* antenna_mode.py:217-218: bits_msb = list(reversed(bits));
\* val = int(''.join(str(b) for b in bits_msb), 2)
read_command_value(bits) == IntOfDigits(Reverse(bits))

\* antenna_mode.py:220-225: the field lines of read_command; AZ, EL, FM, AT
\* and SS are read twice each, PE once
ReadTwice(r, F) ==
    Let(read_field(r.hw, F), LAMBDA a :
    Let(read_field(a.hw, F), LAMBDA b :
        [hw |-> b.hw, shown |-> Append(r.shown, <<F, a.val, b.val>>)]))

ReadOnce(r, F) ==
    Let(read_field(r.hw, F), LAMBDA a :
        [hw |-> a.hw, shown |-> Append(r.shown, <<F, a.val, a.val>>)])

\* read_command() (antenna_mode.py:214-225): [val, shown, bits, hw]
read_command(h) ==
    Let(read_shift_registers(h), LAMBDA r :
    Let(ReadTwice([hw |-> r.hw, shown |-> <<>>], "AZ"), LAMBDA az :
    Let(ReadTwice(az, "EL"), LAMBDA el :
    Let(ReadTwice(el, "FM"), LAMBDA fm :
    Let(ReadTwice(fm, "AT"), LAMBDA at :
    Let(ReadOnce(at, "PE"), LAMBDA pe :
    Let(ReadTwice(pe, "SS"), LAMBDA ss :
        [val |-> read_command_value(r.bits), shown |-> ss.shown,
         bits |-> r.bits, hw |-> ss.hw])))))))

\* command_readcommand (main.py:374-381)
CmdReadCommand ==
    /\ UNCHANGED <<codecVars, railVars, ctxVars>>
    /\ Len(hist) < MaxCmds
    /\ \E r \in {read_command(Begin(hw))} :
           /\ hw' = r.hw
           /\ hist' = Append(hist, [cmd |-> "readcommand", f |-> "", arg |-> None,
                                    ok |-> TRUE, ret |-> r.bits, before |-> Latched(hw),
                                    val |-> r.val, shown |-> r.shown])

\* field commands with arguments in range, and the read accessors
FieldNext ==
    \/ \E F \in FieldSet : \E arg \in GoodArgs(F) : CmdSet(F, arg)
    \/ \E F \in FieldSet : CmdRead(F)

\* field commands with arguments of every kind
FieldErrNext ==
    \E F \in FieldSet :
        \E arg \in {IntText(Alternating(Width(F)))} \cup BadArgs(F) : CmdSet(F, arg)

\* field commands that set one bit of a field: the lowest, the highest and
\* one in between
OneHotArgs(F) == {IntText(Pow2(n)) : n \in {0, Width(F) \div 2, Width(F) - 1}}

OneHotNext ==
    \/ \E F \in FieldSet : \E arg \in OneHotArgs(F) : CmdSet(F, arg)
    \/ \E F \in FieldSet : CmdRead(F)

\* raw writes and reads
WriteData ==
    {[t |-> "list", v |-> v] : v \in {Zeros, Mixed, OneHot(0), OneHot(NBITS - 1)}}
    \cup {FormDatum(f, <<10855845, 5921370, 1>>) : f \in Forms}
    \cup {[t |-> "str", s |-> <<"1", "1", "0">>]}
    \cup BadData

BusNext ==
    \/ \E data \in WriteData : CmdCpldWrite(data)
    \/ CmdReadCpld

\* raw writes of numbers and the two read-out commands
ReadoutData ==
    {[t |-> "int", n |-> n] : n \in {<<1, 0, 0>>, <<10855845, 5921370, 0>>,
                                     <<0, LimbBase \div 2, 0>>, <<LimbBase - 1, 0, 0>>}}
    \cup {[t |-> "list", v |-> Mixed], FormDatum("hex", <<10855845, 5921370, 0>>)}

\* raw writes, one statement at a time
StepData ==
    {[t |-> "list", v |-> v] : v \in {Zeros, Mixed, OneHot(0)}}
    \cup {[t |-> "int", n |-> <<10855845, 5921370, 0>>],
          [t |-> "list", v |-> SubSeq(Ones, 1, NBITS - 1)]}

ReadoutNext ==
    \/ \E data \in ReadoutData : CmdCpldWrite(data)
    \/ CmdReadCpld
    \/ CmdReadCommand

\* ------------------------------------------------------------------------
\* Rail voltages (voltage_control.py).  Voltages are integers in mV; a
\* calibration line is the rational slope num/den (mV per count) with the
\* intercept icn/den, so that voltage = (num * count + icn) / den.
\* ------------------------------------------------------------------------

Channels == {"fixed", "adjustable"}

\* the order of target_voltages.items()
ChannelOrder == <<"fixed", "adjustable">>

\* voltage_control.py:17-20: _VREF * _NOMINAL_DIVIDER = 12.21 V at _ADC_MAX
ADC_MAX == 65535
DefaultLine == [num |-> 12210, den |-> ADC_MAX, icn |-> 0]
DefaultCalibration == [ch \in Channels |-> DefaultLine]

\* voltage_control.py:12 imports FILTER_ALPHA and main.py:93 reads
\* DEFAULT_TARGET_VOLTAGES; config.py defines neither, so a run starts
\* with any of these: a weight num/den of the newest sample, and a target
\* in mV for each rail
FilterAlphas == {[num |-> 1, den |-> 2], [num |-> 9, den |-> 10]}
DefaultTargets == {[ch \in Channels |-> IF ch = "fixed" THEN 3300 ELSE 5000],
                   [ch \in Channels |-> IF ch = "fixed" THEN 5000 ELSE 9000]}
FILTER_ALPHA == config.alpha
DEFAULT_TARGET_VOLTAGES == config.targets

\* voltage_control.py:191: 0.009 V
DeadBand == 9

\* voltage_control.py:73
WiperMax == 255

\* voltage_control.py:70-80 set_wiper on the potentiometers p: [ok, pots, writes]
set_wiper(p, log, pot, value) ==
    IF pot \notin {0, 1} THEN [ok |-> FALSE, pots |-> p, writes |-> log]
    ELSE IF ~(0 <= value /\ value <= WiperMax) THEN [ok |-> FALSE, pots |-> p, writes |-> log]
    ELSE [ok |-> TRUE, pots |-> [p EXCEPT ![pot] = value],
          writes |-> Append(log, [pot |-> pot, value |-> value])]

\* voltage_control.py:92-98 read_voltage with the raw count sampled
read_voltage(calib, ch, count) ==
    (calib[ch].num * count + calib[ch].icn) \div calib[ch].den

Abs(x) == IF x < 0 THEN -x ELSE x
Max(a, b) == IF a < b THEN b ELSE a
Min(a, b) == IF a < b THEN a ELSE b

\* a variant whose step is the whole difference, in wiper counts
ControlChannelProportional(st, calib, targets, ch, count) ==
    LET raw     == read_voltage(calib, ch, count)
        current == (FILTER_ALPHA.num * raw
                    + (FILTER_ALPHA.den - FILTER_ALPHA.num) * st.filtered[ch]) \div FILTER_ALPHA.den
        st1     == [st EXCEPT !.filtered[ch] = current]
        diff    == current - targets[ch]
        new_w   == Max(0, Min(WiperMax, st.wipers[ch] + diff \div DeadBand))
    IN  IF Abs(diff) >= DeadBand /\ new_w # st.wipers[ch]
        THEN LET w == set_wiper(st1.pots, st1.writes, IF ch = "fixed" THEN 1 ELSE 0, new_w)
             IN  [st1 EXCEPT !.wipers[ch] = new_w, !.pots = w.pots,
                             !.writes = w.writes, !.ok = w.ok]
        ELSE st1

\* the raw count that stands for a read that raises
ReadFails == 0 - 1

\* voltage_control.py:185-196, the loop body for one rail on
\* st = [filtered, wipers, pots, writes, ok]; an exception of the read
\* leaves the body at line 185
ControlChannel(st, calib, targets, ch, count) ==
    LET raw     == read_voltage(calib, ch, count)
        current == (FILTER_ALPHA.num * raw
                    + (FILTER_ALPHA.den - FILTER_ALPHA.num) * st.filtered[ch]) \div FILTER_ALPHA.den
        st1     == [st EXCEPT !.filtered[ch] = current]
        diff    == current - targets[ch]
        step    == IF diff > 0 THEN 1 ELSE -1
        new_w   == Max(0, Min(WiperMax, st.wipers[ch] + step))
    IN  IF count = ReadFails THEN [st EXCEPT !.ok = FALSE]
        ELSE IF Abs(diff) >= DeadBand /\ new_w # st.wipers[ch]
        THEN LET w == set_wiper(st1.pots, st1.writes, IF ch = "fixed" THEN 1 ELSE 0, new_w)
             IN  [st1 EXCEPT !.wipers[ch] = new_w, !.pots = w.pots,
                             !.writes = w.writes, !.ok = w.ok]
        ELSE st1

\* voltage_control.py:184-196, the loop of voltage_control_step; counts[ch]
\* is the raw count rail ch's ADC returns.  An exception ends the loop.
\* st.done is the set of rails whose body has run to its end, st.failed the
\* rail whose body raised
RECURSIVE ControlLoop(_, _, _, _, _)
ControlLoop(st, calib, targets, counts, k) ==
    IF k > Len(ChannelOrder) \/ ~st.ok THEN st
    ELSE LET ch  == ChannelOrder[k]
             st1 == ControlChannel(st, calib, targets, ch, counts[ch])
         IN  ControlLoop(IF st1.ok THEN [st1 EXCEPT !.done = @ \cup {ch}]
                         ELSE [st1 EXCEPT !.failed = ch],
                         calib, targets, counts, k + 1)

\* a variant without the test of line 182
voltage_control_step_unguarded(st, calib, targets, counts, isCalibrating) ==
    ControlLoop(st, calib, targets, counts, 1)

\* voltage_control.py:179-196 voltage_control_step
voltage_control_step(st, calib, targets, counts, isCalibrating) ==
    IF isCalibrating THEN st ELSE ControlLoop(st, calib, targets, counts, 1)

\* ------------------------------------------------------------------------
\* The persisted calibration record (voltage_control.py:14, 29-60)
\* ------------------------------------------------------------------------

\* A JSON document as load_calibration looks at it.  A field of an entry is
\* missing, a number num/den, or a value float() raises on (a word, a list,
\* null); an entry of the document is missing, a mapping, or anything else;
\* the document is text json.load raises on, an object, or another value.
JMissing == [kind |-> "missing", num |-> 0, den |-> 1]
JBad == [kind |-> "bad", num |-> 0, den |-> 1]
JNum(n, d) == [kind |-> "num", num |-> n, den |-> d]

NoEntry == [kind |-> "missing", slope |-> JMissing, intercept |-> JMissing]
NotADict == [kind |-> "other", slope |-> JMissing, intercept |-> JMissing]
Dict(slope, intercept) == [kind |-> "dict", slope |-> slope, intercept |-> intercept]

NoDoc == [kind |-> "none", entries |-> [ch \in Channels |-> NoEntry]]
Garbage == [kind |-> "garbage", entries |-> [ch \in Channels |-> NoEntry]]
NotAnObject == [kind |-> "other", entries |-> [ch \in Channels |-> NoEntry]]
Object(entries) == [kind |-> "object", entries |-> entries]

\* voltage_control.py:46 json.dump(_calibration, f): slope and intercept of
\* the line num/den * count + icn/den
dump(calib) ==
    Object([ch \in Channels |->
              Dict(JNum(calib[ch].num, calib[ch].den), JNum(calib[ch].icn, calib[ch].den))])

\* voltage_control.py:37 and 38: the assignments to 'slope' and 'intercept'
\* of a record, the other member kept
SetSlope(line, f) ==
    IF f.den = line.den THEN [line EXCEPT !.num = f.num]
    ELSE IF line.icn = 0 THEN [num |-> f.num, den |-> f.den, icn |-> 0]
    ELSE [num |-> f.num * line.den, den |-> f.den * line.den, icn |-> line.icn * f.den]

SetIntercept(line, f) ==
    IF f.den = line.den THEN [line EXCEPT !.icn = f.num]
    ELSE IF f.num = 0 THEN [line EXCEPT !.icn = 0]
    ELSE [num |-> line.num * f.den, den |-> line.den * f.den, icn |-> f.num * line.den]

\* voltage_control.py:34
LoadOrder == <<"fixed", "adjustable">>

\* voltage_control.py:34-38: the loop over the rails from the k-th on;
\* caught tells whether a statement raised, which ends the loop at line 39
RECURSIVE LoadEntries(_, _, _)
LoadEntries(calib, doc, k) ==
    IF k > Len(LoadOrder) THEN [calibration |-> calib, caught |-> FALSE]
    ELSE LET ch    == LoadOrder[k]
             entry == doc.entries[ch]
             c1    == [calib EXCEPT ![ch] =
                         SetSlope(@, IF entry.slope.kind = "missing"
                                     THEN JNum(DefaultLine.num, DefaultLine.den)
                                     ELSE entry.slope)]
             c2    == [c1 EXCEPT ![ch] =
                         SetIntercept(@, IF entry.intercept.kind = "missing"
                                         THEN JNum(0, 1) ELSE entry.intercept)]
         IN  IF entry.kind # "dict" THEN LoadEntries(calib, doc, k + 1)
             ELSE IF entry.slope.kind = "bad" THEN [calibration |-> calib, caught |-> TRUE]
             ELSE IF entry.intercept.kind = "bad" THEN [calibration |-> c1, caught |-> TRUE]
             ELSE LoadEntries(c2, doc, k + 1)

\* voltage_control.py:29-40 load_calibration: [calibration, caught]
load_calibration(calib, file) ==
    IF ~file.present \/ file.data.kind # "object"
    THEN [calibration |-> calib, caught |-> TRUE]
    ELSE LoadEntries(calib, file.data, 1)

\* a variant that leaves the file where it is
reset_calibration_keeps_file(calib, file) ==
    [calibration |-> DefaultCalibration, file |-> file]

\* voltage_control.py:51-60 reset_calibration: [calibration, file]; removing
\* a file that is not there raises OSError, which is passed over
reset_calibration(calib, file) ==
    [calibration |-> DefaultCalibration,
     file |-> [file EXCEPT !.present = FALSE, !.data = NoDoc]]

\* no file
NoFile == [present |-> FALSE, data |-> NoDoc, writes |-> 0]

\* voltage_control.py:43-48 save_calibration
save_calibration(file, calib) ==
    [present |-> TRUE, data |-> dump(calib), writes |-> file.writes + 1]

\* a variant that orders the counts and leaves the voltages as they came
calibrate_fit_counts_only(calib, file, ch, raw_a, v_a, raw_b, v_b) ==
    LET swap     == raw_b < raw_a
        raw_low  == IF swap THEN raw_b ELSE raw_a
        raw_high == IF swap THEN raw_a ELSE raw_b
        num      == v_b - v_a
        den      == raw_high - raw_low
        line     == [num |-> num, den |-> den, icn |-> v_a * den - num * raw_low]
        fitted   == [calib EXCEPT ![ch] = line]
    IN  IF raw_high = raw_low
        THEN [ok |-> FALSE, calibration |-> calib, file |-> file]
        ELSE [ok |-> TRUE, calibration |-> fitted, file |-> save_calibration(file, fitted)]

\* a variant that saves before it tests the counts
calibrate_fit_save_first(calib, file, ch, raw_a, v_a, raw_b, v_b) ==
    [ok |-> raw_a # raw_b, calibration |-> calib, file |-> save_calibration(file, calib)]

\* voltage_control.py:135-146, the end of calibrate_channel: order the two
\* points, refuse a vertical line, fit, store and save: [ok, calibration, file]
calibrate_fit(calib, file, ch, raw_a, v_a, raw_b, v_b) ==
    LET swap     == raw_b < raw_a
        raw_low  == IF swap THEN raw_b ELSE raw_a
        raw_high == IF swap THEN raw_a ELSE raw_b
        v_low    == IF swap THEN v_b ELSE v_a
        v_high   == IF swap THEN v_a ELSE v_b
        num      == v_high - v_low
        den      == raw_high - raw_low
        line     == [num |-> num, den |-> den, icn |-> v_low * den - num * raw_low]
        fitted   == [calib EXCEPT ![ch] = line]
    IN  IF raw_high = raw_low
        THEN [ok |-> FALSE, calibration |-> calib, file |-> file]
        ELSE [ok |-> TRUE, calibration |-> fitted, file |-> save_calibration(file, fitted)]

\* a variant of the settling test that asks for less than the tolerance
Settled_strict(prev, curr) == Abs(curr - prev) < 2

\* voltage_control.py:111 and 127, the settling test of the polls
Settled(prev, curr) == Abs(curr - prev) <= 2

\* main.py:164 and voltage_control.py:150-152
PotOf(ch) == IF ch = "adjustable" THEN 0 ELSE 1

\* ------------------------------------------------------------------------
\* The rails as a state machine: the scheduler's regulation tick, and the
\* command context's setres, setvolt and calibrate.  A calibration is a
\* process of the command context: it polls once a second and waits for
\* the operator, and the scheduler runs in between.
\* ------------------------------------------------------------------------

MaxTicks == 2
MaxRailCmds == 2
MaxCalRuns == 1

\* raw counts the inputs are drawn from: a grounded rail, a rail at its
\* nominal target, a rail at full scale (regulation), and a low and a high
\* count (calibration); the operator measures 0.5 V or 9.0 V
NominalCount(ch) == IF ch = "fixed" THEN 17712 ELSE 26837
Scenes == {[ch \in Channels |-> 0], [ch \in Channels |-> NominalCount(ch)],
           [ch \in Channels |-> ADC_MAX],
           [ch \in Channels |-> IF ch = "fixed" THEN ADC_MAX ELSE 0]}
CalCounts == {1000, 50000}

Number(mv) == [num |-> TRUE, mv |-> mv]
NotANumber == [num |-> FALSE, mv |-> 0]
OperatorAnswers == {Number(500), Number(9000), NotANumber}

IdleCal == [pc |-> "idle", ch |-> "", queue |-> <<>>, prev |-> 0, raw_low |-> 0,
            v_low |-> 0, raw_high |-> 0, v_high |-> 0, fitted |-> FALSE, result |-> "none",
            cal0 |-> DefaultCalibration,
            file0 |-> NoFile]

\* the scheduler is between two calls of voltage_control_step
IdleTick == [pc |-> "idle", k |-> 1]

\* done and failed are the rails a tick has processed and the rail at
\* which it raised, "" when it raised at none
\* args are the words of a command and pre the rail state it started from,
\* both empty for the operations that record neither
Op(name, wipers0, writes, ok) ==
    [op |-> name, wipers0 |-> wipers0, writes |-> writes, ok |-> ok,
     done |-> {}, failed |-> "", args |-> <<>>, pre |-> <<>>]

\* the rail state a command starts from
RailState == [auto |-> auto_control, targets |-> target_voltages,
              filtered |-> filtered_voltages, pots |-> pots]

\* main.py:93-98 and 464-480: the state when main() enters its loop
RailInit ==
    /\ config \in [alpha : FilterAlphas, targets : DefaultTargets]
    /\ target_voltages = DEFAULT_TARGET_VOLTAGES
    /\ current_wipers = [ch \in Channels |-> WiperMax]
    /\ \E counts \in {[ch \in Channels |-> NominalCount(ch)], [ch \in Channels |-> 0]} :
         filtered_voltages = [ch \in Channels |-> read_voltage(DefaultCalibration, ch, counts[ch])]
    /\ calibrating = FALSE
    /\ auto_control = [ch \in Channels |-> TRUE]
    /\ calibration = DefaultCalibration
    /\ calFile = NoFile
    /\ pots = [p \in {0, 1} |-> WiperMax]
    /\ cal = IdleCal
    /\ lastOp = Op("none", [ch \in Channels |-> WiperMax], <<>>, TRUE)
    /\ tick = IdleTick
    /\ nticks = 0
    /\ ncmds = 0

\* voltage_control_step as main.py:445 calls it
Tick(counts) ==
    /\ UNCHANGED <<codecVars, busVars, ctxVars, config, tick>>
    /\ nticks < MaxTicks
    /\ LET st == voltage_control_step(
                    [filtered |-> filtered_voltages, wipers |-> current_wipers,
                     pots |-> pots, writes |-> <<>>, ok |-> TRUE,
                     done |-> {}, failed |-> ""],
                    calibration, target_voltages, counts, calibrating)
       IN  /\ filtered_voltages' = st.filtered
           /\ current_wipers' = st.wipers
           /\ pots' = st.pots
           /\ lastOp' = [Op("tick", current_wipers, st.writes, st.ok)
                            EXCEPT !.done = st.done, !.failed = st.failed]
    /\ nticks' = nticks + 1
    /\ UNCHANGED <<target_voltages, calibrating, auto_control, calibration, calFile, cal, ncmds>>

\* main.py:517-521: the call passes one argument more than the function
\* takes; the TypeError is caught and reported
MainTick ==
    /\ UNCHANGED <<codecVars, busVars, ctxVars, config, tick>>
    /\ nticks < MaxTicks
    /\ lastOp' = Op("maintick", current_wipers, <<>>, FALSE)
    /\ nticks' = nticks + 1
    /\ UNCHANGED <<target_voltages, current_wipers, filtered_voltages, calibrating,
                   auto_control, calibration, calFile, pots, cal, ncmds>>

\* The same call step by step, for the command context to run in between
\* (main.py:467 starts it as a second thread).  The call evaluates its
\* arguments, the value of calibrating among them, and line 182 tests that
\* value: the tick ends there or enters the loop.
TickBegin ==
    /\ UNCHANGED <<codecVars, busVars, ctxVars, config>>
    /\ tick.pc = "idle" /\ nticks < MaxTicks
    /\ tick' = IF calibrating THEN IdleTick ELSE [pc |-> "loop", k |-> 1]
    /\ lastOp' = Op("tickbegin", current_wipers, <<>>, TRUE)
    /\ nticks' = nticks + 1
    /\ UNCHANGED <<target_voltages, current_wipers, filtered_voltages, calibrating,
                   auto_control, calibration, calFile, pots, cal, ncmds>>

\* voltage_control.py:184-196, one iteration of the loop: the rail is read,
\* filtered and stepped on the state as it is now
TickRail(count) ==
    /\ UNCHANGED <<codecVars, busVars, ctxVars, config>>
    /\ tick.pc = "loop"
    /\ LET st == ControlChannel(
                    [filtered |-> filtered_voltages, wipers |-> current_wipers,
                     pots |-> pots, writes |-> <<>>, ok |-> TRUE],
                    calibration, target_voltages, ChannelOrder[tick.k], count)
       IN  /\ filtered_voltages' = st.filtered
           /\ current_wipers' = st.wipers
           /\ pots' = st.pots
           /\ lastOp' = Op("tickrail", current_wipers, st.writes, st.ok)
           /\ tick' = IF st.ok /\ tick.k < Len(ChannelOrder)
                       THEN [pc |-> "loop", k |-> tick.k + 1] ELSE IdleTick
    /\ UNCHANGED <<target_voltages, calibrating, auto_control, calibration, calFile,
                   cal, nticks, ncmds>>

\* ------------------------------------------------------------------------
\* The command listener (main.py:383-432)
\* ------------------------------------------------------------------------

MaxArgs == 3

\* main.py:383-412 with the handlers' signatures (main.py:101-374): the
\* numbers of arguments each registered command accepts
Arity ==
    [c \in {"help", "shutdown", "calibrate_all", "resetcal", "debug", "readcpld",
            "readaz", "readel", "readfm", "readat", "readpe", "readss", "readcommand"}
        |-> {0}] @@
    [c \in {"calibrate", "cpld_write", "setaz", "setel", "setfm", "setat", "setpe", "setss"}
        |-> {1}] @@
    [c \in {"setres", "setvolt", "setled"} |-> {2}] @@
    [c \in {"readvolt", "debugvolt"} |-> 0..MaxArgs]

commands == DOMAIN Arity

\* the exception classes a call can end with; the last two are not
\* subclasses of Exception
Raised == {"none", "TypeError", "ValueError", "OSError", "KeyboardInterrupt", "SystemExit"}
ExceptionClasses == {"TypeError", "ValueError", "OSError"}

\* a line of input: end of input, or its words
Eof == [eof |-> TRUE, words |-> <<>>]
Line(words) == [eof |-> FALSE, words |-> words]

\* what binding the arguments of the call of line 427 raises
BindArgs(words) ==
    IF Len(words) - 1 \in Arity[words[1]] THEN "none" ELSE "TypeError"

ErrorReports == {"unknown command", "invalid arguments", "error executing",
                 "error in handler"}

\* the listener with one more line answered
Answered(l, report) ==
    [l EXCEPT !.report = report, !.served = @ + 1,
              !.errors = IF report \in ErrorReports THEN @ + 1 ELSE @]

\* a listener whose second handler is missing: only TypeError is caught
command_listener_typeerror_only(l, inp, raised, reported) ==
    IF inp.eof THEN [l EXCEPT !.alive = FALSE, !.report = "exiting"]
    ELSE IF inp.words = <<>> THEN Answered(l, "none")
    ELSE IF inp.words[1] \in commands
    THEN IF raised = "none"
         THEN Answered(l, IF reported THEN "error in handler" ELSE "none")
         ELSE IF raised = "TypeError" THEN Answered(l, "invalid arguments")
         ELSE [l EXCEPT !.alive = FALSE, !.report = "uncaught"]
    ELSE Answered(l, "unknown command")

\* main.py:414-432: one iteration of command_listener on the line inp, when
\* the call of line 427 ends with the exception raised ("none": it returns),
\* reported telling whether the handler caught and printed an error itself
command_listener(l, inp, raised, reported) ==
    IF inp.eof THEN [l EXCEPT !.alive = FALSE, !.report = "exiting"]
    ELSE IF inp.words = <<>> THEN Answered(l, "none")
    ELSE IF inp.words[1] \in commands
    THEN IF raised = "none"
         THEN Answered(l, IF reported THEN "error in handler" ELSE "none")
         ELSE IF raised = "TypeError" THEN Answered(l, "invalid arguments")
         ELSE IF raised \in ExceptionClasses THEN Answered(l, "error executing")
         ELSE [l EXCEPT !.alive = FALSE, !.report = "uncaught"]
    ELSE Answered(l, "unknown command")

\* the listener's thread as main.py:467 starts it
IdleListener == [alive |-> TRUE, report |-> "none", served |-> 0, errors |-> 0]

ctxRest == <<leds, ledhw, sched, upd, boot, spi, adc, auto_update_led>>

\* main.py:110-126 command_setres
\* the pot argument is a word (isalpha) or the text of an integer
AlphaWords == {"fixed", "adjustable", "wiper"}
PotArgs == {"fixed", "adjustable", "1", "0", "wiper", "2"}

\* main.py:112: key = pot.lower() if pot.isalpha() else ('fixed' if
\* int(pot) == 1 else 'adjustable')
PotKey(pot) ==
    IF pot \in AlphaWords THEN pot ELSE IF pot = "1" THEN "fixed" ELSE "adjustable"

\* main.py:113: p = 1 if key == 'fixed' else 0
PotOfKey(key) == IF key = "fixed" THEN 1 ELSE 0

CmdSetRes(pot, value) ==
    /\ listener.alive
    /\ UNCHANGED <<codecVars, busVars, ctxRest, config, tick>>
    /\ cal.pc = "idle" /\ ncmds < MaxRailCmds
    /\ LET key == PotKey(pot)
           w   == IF value.int THEN set_wiper(pots, <<>>, PotOfKey(key), value.n)
                  ELSE [ok |-> FALSE, pots |-> pots, writes |-> <<>>]
       IN  /\ pots' = w.pots
           /\ current_wipers' = IF w.ok /\ key \in Channels
                                THEN [current_wipers EXCEPT ![key] = value.n]
                                ELSE current_wipers
           /\ auto_control' = IF w.ok /\ key \in Channels
                              THEN [auto_control EXCEPT ![key] = FALSE]
                              ELSE auto_control
           /\ lastOp' = [Op("setres", current_wipers, w.writes, w.ok)
                            EXCEPT !.args = <<pot, value>>, !.pre = RailState]
    /\ ncmds' = ncmds + 1
    /\ UNCHANGED <<target_voltages, filtered_voltages, calibrating, calibration,
                   calFile, cal, nticks>>
    /\ listener' = command_listener(listener, Line(<<"setres", pot, value>>), "none",
                                     ~lastOp'.ok)

\* main.py:128-144 command_setvolt with voltage_control.py:171-176
CmdSetVolt(ch, voltage) ==
    /\ listener.alive
    /\ UNCHANGED <<codecVars, busVars, ctxRest, config, tick>>
    /\ cal.pc = "idle" /\ ncmds < MaxRailCmds
    /\ LET ok == ch \in Channels /\ voltage.num
       IN  /\ target_voltages' = IF ok THEN [target_voltages EXCEPT ![ch] = voltage.mv]
                                 ELSE target_voltages
           /\ auto_control' = IF ok THEN [auto_control EXCEPT ![ch] = TRUE] ELSE auto_control
           /\ lastOp' = [Op("setvolt", current_wipers, <<>>, ok)
                            EXCEPT !.args = <<ch, voltage>>, !.pre = RailState]
    /\ ncmds' = ncmds + 1
    /\ UNCHANGED <<current_wipers, filtered_voltages, calibrating, calibration,
                   calFile, pots, cal, nticks>>
    /\ listener' = command_listener(listener, Line(<<"setvolt", ch, voltage>>), "none",
                                     ~lastOp'.ok)

\* voltage_control.py:102-106: calibrate_channel up to its first poll, for
\* the first rail of the queue q; prev is the count read at line 106
BeginChannel(q, prev, runResult) ==
    LET w == set_wiper(pots, <<>>, PotOf(q[1]), 0)
    IN  /\ pots' = w.pots
        /\ cal' = [pc |-> "poll_low", ch |-> q[1], queue |-> Tail(q), prev |-> prev,
                   raw_low |-> 0, v_low |-> 0, raw_high |-> 0, v_high |-> 0,
                   fitted |-> FALSE, result |-> runResult,
                   cal0 |-> calibration', file0 |-> calFile']
        /\ lastOp' = Op("calibrate", current_wipers, w.writes, w.ok)

\* main.py:155-170 command_calibrate and command_calibrate_all, up to the
\* first poll of the first rail
CalArgs == {"fixed", "adjustable", "all", "both"}

CmdCalibrate(arg, prev) ==
    /\ listener.alive
    /\ UNCHANGED <<codecVars, busVars, ctxRest, config, tick>>
    /\ cal.pc = "idle" /\ ncmds < MaxCalRuns
    /\ ncmds' = ncmds + 1
    /\ UNCHANGED <<target_voltages, current_wipers, filtered_voltages, auto_control,
                   calibration, calFile, nticks>>
    /\ IF arg # "all" /\ arg \notin Channels
       THEN /\ lastOp' = Op("calibrate", current_wipers, <<>>, FALSE)
            /\ UNCHANGED <<calibrating, pots, cal>>
       ELSE /\ calibrating' = TRUE
            /\ BeginChannel(IF arg = "all" THEN <<"adjustable", "fixed">> ELSE <<arg>>,
                            prev, "running")
    /\ listener' = IF cal'.pc = "idle"
                   THEN command_listener(listener, Line(<<"calibrate", arg>>), "none", TRUE)
                   ELSE listener

\* voltage_control.py:107-115 and 123-131: one poll of the settling loop
Poll(curr) ==
    /\ cal.pc \in {"poll_low", "poll_high"}
    /\ cal' = IF Settled(cal.prev, curr)
              THEN [cal EXCEPT !.prev = curr,
                               !.pc = IF cal.pc = "poll_low" THEN "prompt_low" ELSE "prompt_high"]
              ELSE [cal EXCEPT !.prev = curr]
    /\ lastOp' = Op("poll", current_wipers, <<>>, TRUE)
    /\ UNCHANGED <<target_voltages, current_wipers, filtered_voltages, calibrating,
                   auto_control, calibration, calFile, pots, nticks, ncmds>>

CalPoll(curr) ==
    /\ UNCHANGED <<codecVars, busVars, ctxVars, config, tick>>
    /\ Poll(curr)

\* The ADC of the rail under calibration as a sequence of raw counts: the
\* count of line 106 or 122 (First) and the counts the polls of one loop
\* read after it.  A steady rail gives one count; a settling rail moves by
\* 10, 5, 3 and 2 counts and then stays; an oscillating rail moves by 3
\* counts to and fro.
AdcScenes == {"steady", "settles", "oscillates"}
Ramp == <<10, 15, 18, 20>>
First(pc) == IF pc \in {"poll_low", "prompt_low"} THEN 1000 ELSE 41000

Sample(scene, pc, k) ==
    CASE scene = "steady"     -> First(pc)
      [] scene = "settles"    -> First(pc) + Ramp[Min(k + 1, Len(Ramp))]
      [] scene = "oscillates" -> First(pc) + (IF k % 2 = 0 THEN 3 ELSE 0)

\* the samples kept of the current loop
MaxTrace == 4

LastOf(t, n) == IF Len(t) <= n THEN t ELSE SubSeq(t, Len(t) - n + 1, Len(t))

\* the loop the samples belong to, the number of polls it has made (counted
\* on as 4, 5, 4, 5 beyond 5), its samples, and the count each loop of the
\* run ended on
IdleAdc == [scene |-> "steady", loop |-> <<>>, polls |-> 0, trace |-> <<>>,
            low |-> 0, high |-> 0]

CurrentLoop == <<ncmds, cal.ch, cal.pc>>

\* one poll of the settling loop on the next count of the ADC
SettlePoll ==
    /\ UNCHANGED <<codecVars, busVars, leds, ledhw, sched, upd, listener, boot, spi,
                   auto_update_led, config, tick>>
    /\ cal.pc \in {"poll_low", "poll_high"}
    /\ LET fresh == adc.loop # CurrentLoop
           k     == IF fresh THEN 0 ELSE adc.polls
           curr  == Sample(adc.scene, cal.pc, k)
           t     == IF fresh THEN <<cal.prev>> ELSE adc.trace
       IN  /\ Poll(curr)
           /\ adc' = [adc EXCEPT !.loop = CurrentLoop,
                                 !.polls = IF k + 1 > 5 THEN k - 1 ELSE k + 1,
                                 !.trace = LastOf(Append(t, curr), MaxTrace),
                                 !.low = IF cal.pc = "poll_low" /\ cal'.pc = "prompt_low"
                                         THEN curr ELSE @,
                                 !.high = IF cal.pc = "poll_high" /\ cal'.pc = "prompt_high"
                                          THEN curr ELSE @]

\* voltage_control.py:117-122: the operator's answer at wiper 0, then the
\* wiper goes to 255 and the first count is read.  An answer float() cannot
\* parse raises out of command_calibrate, past its last line.
CalAnswerLow(answer, prev) ==
    /\ UNCHANGED <<codecVars, busVars, ctxRest, config, tick>>
    /\ cal.pc = "prompt_low"
    /\ UNCHANGED <<target_voltages, current_wipers, filtered_voltages, calibrating,
                   auto_control, calibration, calFile, nticks, ncmds>>
    /\ IF ~answer.num
       THEN /\ cal' = [cal EXCEPT !.pc = "idle", !.result = "bad_voltage"]
            /\ lastOp' = Op("answer", current_wipers, <<>>, FALSE)
            /\ UNCHANGED pots
       ELSE LET w == set_wiper(pots, <<>>, PotOf(cal.ch), WiperMax)
            IN  /\ pots' = w.pots
                /\ cal' = [cal EXCEPT !.pc = "poll_high", !.raw_low = cal.prev,
                                      !.v_low = answer.mv, !.prev = prev]
                /\ lastOp' = Op("answer", current_wipers, w.writes, w.ok)
    /\ listener' = IF cal'.pc = "idle"
                   THEN command_listener(listener, Line(<<"calibrate", cal.ch>>),
                                         "ValueError", FALSE)
                   ELSE listener

\* voltage_control.py:133-147: the operator's answer at wiper 255 and the
\* fit; then the next rail of calibrate_all, or main.py:165/170
CalAnswerHigh(answer, prev) ==
    /\ UNCHANGED <<codecVars, busVars, ctxRest, config, tick>>
    /\ cal.pc = "prompt_high"
    /\ UNCHANGED <<target_voltages, current_wipers, filtered_voltages, auto_control,
                   nticks, ncmds>>
    /\ IF ~answer.num
       THEN /\ cal' = [cal EXCEPT !.pc = "idle", !.result = "bad_voltage"]
            /\ lastOp' = Op("answer", current_wipers, <<>>, FALSE)
            /\ UNCHANGED <<calibrating, calibration, calFile, pots>>
       ELSE LET fit == calibrate_fit(calibration, calFile, cal.ch,
                                     cal.raw_low, cal.v_low, cal.prev, answer.mv)
            IN  /\ calibration' = fit.calibration
                /\ calFile' = fit.file
                /\ IF ~fit.ok
                   THEN /\ cal' = [cal EXCEPT !.pc = "idle", !.result = "degenerate",
                                              !.raw_high = cal.prev, !.v_high = answer.mv,
                                              !.fitted = TRUE]
                        /\ lastOp' = Op("answer", current_wipers, <<>>, FALSE)
                        /\ UNCHANGED <<calibrating, pots>>
                   ELSE IF cal.queue # <<>>
                   THEN /\ BeginChannel(cal.queue, prev, "running")
                        /\ UNCHANGED calibrating
                   ELSE /\ cal' = [cal EXCEPT !.pc = "idle", !.result = "ok",
                                              !.raw_high = cal.prev, !.v_high = answer.mv,
                                              !.fitted = TRUE]
                        /\ calibrating' = FALSE
                        /\ lastOp' = Op("answer", current_wipers, <<>>, TRUE)
                        /\ UNCHANGED pots
    /\ listener' = IF cal'.pc # "idle" THEN listener
                   ELSE command_listener(listener, Line(<<"calibrate", cal.ch>>),
                                         IF cal'.result = "ok" THEN "none" ELSE "ValueError",
                                         FALSE)

\* ------------------------------------------------------------------------
\* The pins of the two register chains (config.py:19-56) and the status
\* LEDs (led_control.py)
\* ------------------------------------------------------------------------

\* config.py:49-53, the GPIO numbers of the 48-bit chain
SR_SER == 6
SR_OE == 7
SR_SRCLK == 8
SR_RCLK == 9
SR_OUT == 10
SRPins == {SR_SER, SR_OE, SR_SRCLK, SR_RCLK, SR_OUT}

\* config.py:21-25, the GPIO numbers of the LED register
LED_OE == 11
LED_RCK == 12
LED_SRCLR == 13
\* a variant with the LED shift clock on the GPIO of the chain's shift clock
LED_SRCK_on_SR_SRCLK == SR_SRCLK
LED_SRCK == 18
LED_SER_IN == 19

\* config.py:56 and main.py:44
mode_pins == <<2, 3, 4, 5>>
onboard_led == 25

\* led_control.py:114-115: four LEDs of three bits are shifted out
LedBits == 4 * 3

\* Pin(pin).value(v) seen from the 48-bit chain
PinOnChain(h, pin, v) ==
    CASE pin = SR_SER   -> DriveSER(h, v)
      [] pin = SR_OE    -> DriveOE(h, v)
      [] pin = SR_SRCLK -> DriveSRCLK(h, v)
      [] pin = SR_RCLK  -> DriveRCLK(h, v)
      [] OTHER          -> h

\* Pin(pin).value(v) seen from the LED register: the last LedBits bits
\* shifted in, and their latch
PinOnLeds(l, pin, v) ==
    CASE pin = LED_SER_IN -> [l EXCEPT !.ser = v]
      [] pin = LED_OE     -> [l EXCEPT !.oe = v]
      [] pin = LED_SRCLR  -> IF v = 0 THEN [l EXCEPT !.srclr = 0, !.sh = [k \in 1..LedBits |-> 0]]
                             ELSE [l EXCEPT !.srclr = 1]
      [] pin = LED_SRCK   -> IF l.srck = 0 /\ v = 1
                             THEN [l EXCEPT !.srck = 1,
                                            !.sh = <<l.ser>> \o SubSeq(l.sh, 1, LedBits - 1)]
                             ELSE [l EXCEPT !.srck = v]
      [] pin = LED_RCK    -> IF l.rck = 0 /\ v = 1 THEN [l EXCEPT !.rck = 1, !.lat = l.sh]
                             ELSE [l EXCEPT !.rck = v]
      [] OTHER            -> l

\* the ports as a context sees them: g = [hw, led, pins], pins the GPIOs it
\* has driven or sampled
Value(g, pin, v) ==
    [hw |-> PinOnChain(g.hw, pin, v), led |-> PinOnLeds(g.led, pin, v),
     pins |-> g.pins \cup {pin}]

\* a sequence of Pin.value(v) calls, ops[lo+1..hi], as those of the first
\* half followed by those of the second half
RECURSIVE Values(_, _, _, _)
Values(g, ops, lo, hi) ==
    IF hi <= lo THEN g
    ELSE IF hi = lo + 1 THEN Value(g, ops[lo + 1].pin, ops[lo + 1].v)
    ELSE Let(Values(g, ops, lo, (lo + hi) \div 2), LAMBDA g1 :
             Values(g1, ops, (lo + hi) \div 2, hi))

\* led_control.py:17-26
HEAT_PALETTE == << <<0, 0, 0>>, <<0, 0, 1>>, <<0, 1, 1>>, <<0, 1, 0>>,
                   <<1, 1, 0>>, <<1, 0, 0>>, <<1, 0, 1>>, <<1, 1, 1>> >>

\* led_control.py:29-47, the voltage in mV
get_heat_map_color(voltage) ==
    HEAT_PALETTE[1 + (CASE voltage < 3200 -> 0 [] voltage < 3500 -> 1 [] voltage < 4500 -> 2
                        [] voltage < 5500 -> 3 [] voltage < 6500 -> 4 [] voltage < 7500 -> 5
                        [] voltage < 8500 -> 6 [] OTHER -> 7)]

\* antenna_mode.py:209 read_mode: levels are those of the four mode pins
read_mode(g, levels) ==
    [mode |-> 4 * levels[1] + 2 * levels[2] + levels[3],
     g |-> [g EXCEPT !.pins = @ \cup {mode_pins[k] : k \in 1..Len(mode_pins)}]]

\* led_control.py:114-122, the pin calls of the shift loop: three for
\* each bit
LedShiftOps(bits) ==
    [j \in 1..(3 * Len(bits)) |->
        CASE (j - 1) % 3 = 0 -> [pin |-> LED_SER_IN, v |-> bits[1 + (j - 1) \div 3]]
          [] (j - 1) % 3 = 1 -> [pin |-> LED_SRCK, v |-> 1]
          [] OTHER           -> [pin |-> LED_SRCK, v |-> 0]]

\* main.py:98: the four indicators, numbered as setled numbers them
LedIdx == 0..3
StartAuto == [i \in LedIdx |-> [auto |-> TRUE, manual |-> None]]

\* led_control.py:50-127 update_leds: [leds, g].  LED 0 and LED 1 are set
\* when their flag is set (lines 75-83); the branches of LED 2 and LED 3
\* are empty (lines 86-95)
update_leds(g, ledsv, filtered, antenna_mode, flags) ==
    LET mode_idx == IF antenna_mode < 0 \/ antenna_mode >= Len(HEAT_PALETTE) THEN 0
                    ELSE antenna_mode
        l1 == [ledsv EXCEPT ![1] = IF flags[0].auto
                                   THEN get_heat_map_color(filtered["adjustable"]) ELSE @,
                            ![2] = IF flags[1].auto THEN HEAT_PALETTE[mode_idx + 1] ELSE @]
        \* LED 1 red with LED 2 blue, LED 1 green with LED 2 green
        w  == [l1 EXCEPT ![2] = <<l1[3][3], l1[3][2], l1[2][3]>>,
                         ![3] = <<l1[3][1], l1[2][2], l1[2][1]>>]
        \* each LED is sent blue, green, red
        bits == [k \in 1..LedBits |-> w[1 + (k - 1) \div 3][3 - ((k - 1) % 3)]]
        ops == <<[pin |-> LED_OE, v |-> 0], [pin |-> LED_SRCLR, v |-> 1],
                 [pin |-> LED_RCK, v |-> 0]>>
               \o LedShiftOps(bits)
               \o <<[pin |-> LED_RCK, v |-> 1], [pin |-> LED_RCK, v |-> 0]>>
    IN  [leds |-> l1, g |-> Values(g, ops, 0, Len(ops))]

RailIdle ==
    /\ config = [alpha |-> [num |-> 1, den |-> 2],
                 targets |-> [ch \in Channels |-> 0]]
    /\ target_voltages = DEFAULT_TARGET_VOLTAGES
    /\ current_wipers = [ch \in Channels |-> WiperMax]
    /\ filtered_voltages = [ch \in Channels |-> 0]
    /\ calibrating = FALSE
    /\ auto_control = [ch \in Channels |-> TRUE]
    /\ calibration = DefaultCalibration
    /\ calFile = NoFile
    /\ pots = [p \in {0, 1} |-> WiperMax]
    /\ cal = IdleCal
    /\ lastOp = Op("none", [ch \in Channels |-> WiperMax], <<>>, TRUE)
    /\ tick = IdleTick
    /\ nticks = 0
    /\ ncmds = 0

BusIdle == hw = IdleBus(Zeros, 0) /\ hist = <<>>

CodecIdle ==
    /\ cv_n = <<>>
    /\ cv_out = [f \in Forms |-> NotRun]
    /\ cv_raw = NoData
    /\ cv_rawout = NotRun

RegulationNext ==
    \/ \E counts \in Scenes : Tick(counts)
    \/ MainTick
    \/ \E pot \in PotArgs, value \in {IntText(0), IntText(WiperMax), IntText(WiperMax + 1), NotAnInt} :
         CmdSetRes(pot, value)
    \/ \E ch \in Channels \cup {"both"}, voltage \in {Number(12000), NotANumber} :
         CmdSetVolt(ch, voltage)

CalibrationNext ==
    \/ \E counts \in {[ch \in Channels |-> 0]} : Tick(counts)
    \/ MainTick
    \/ \E arg \in CalArgs, prev \in CalCounts : CmdCalibrate(arg, prev)
    \/ \E curr \in CalCounts : CalPoll(curr)
    \/ \E answer \in OperatorAnswers, prev \in CalCounts : CalAnswerLow(answer, prev)
    \/ \E answer \in OperatorAnswers, prev \in CalCounts : CalAnswerHigh(answer, prev)

\* a calibration in the command context, and the steps of the regulation
\* tick of the scheduler context in any order with it
RaceNext ==
    \/ TickBegin
    \/ \E count \in {0} : TickRail(count)
    \/ \E arg \in CalArgs, prev \in CalCounts : CmdCalibrate(arg, prev)
    \/ \E curr \in CalCounts : CalPoll(curr)
    \/ \E answer \in OperatorAnswers, prev \in CalCounts : CalAnswerLow(answer, prev)
    \/ \E answer \in OperatorAnswers, prev \in CalCounts : CalAnswerHigh(answer, prev)

\* ------------------------------------------------------------------------
\* The two contexts: main()'s loop and the command listener's thread
\* (main.py:464-523 and 414-432)
\* ------------------------------------------------------------------------

MaxCycles == 1
MaxUpdates == 1

\* which of the three periodic blocks are due in a cycle (main.py:491, 503,
\* 517): the intervals are 1000, 250 and 10 ms
Due(toggle, led, volt) == [toggle |-> toggle, led |-> led, volt |-> volt]
DueSets == {Due(TRUE, TRUE, TRUE), Due(FALSE, TRUE, TRUE), Due(FALSE, FALSE, TRUE)}

\* levels of the four mode pins
ModeLevels == {<<0, 0, 0, 0>>, <<1, 0, 1, 1>>}

\* main.py:465 on config.py:33
StartLeds == << <<0, 0, 0>>, <<0, 0, 0>>, <<0, 0, 0>>, <<0, 1, 0>> >>

\* config.py:28-30
IdleLeds == [ser |-> 0, oe |-> 0, srclr |-> 1, srck |-> 0, rck |-> 0,
             sh |-> [k \in 1..LedBits |-> 0], lat |-> [k \in 1..LedBits |-> 0]]

\* main.py:481-486: main() about to enter its loop, the mode read once
MainStart(mode) ==
    [pc |-> "toggle", due |-> Due(FALSE, FALSE, FALSE), mode |-> mode, cycles |-> 0,
     alive |-> TRUE, refreshed |-> FALSE, onboard |-> 0, raised |-> "none"]

\* no field update in progress
IdleUpd == [pc |-> "idle", F |-> "", n |-> 0, vals |-> [G \in FieldSet |-> None],
            pat |-> <<>>, hw |-> IdleBus(Zeros, 0), before |-> Zeros, foreign |-> {}]

\* the pins another context touches while an update is in progress
Foreign(pins) == IF upd.pc = "idle" THEN upd ELSE [upd EXCEPT !.foreign = @ \cup pins]

Ports == [hw |-> hw, led |-> ledhw, pins |-> {}]

\* update_leds when it raises at line 98, as a list it cannot allocate
\* does: the colours are assigned and no pin is written
update_leds_raises(g, ledsv, filtered, antenna_mode, flags) ==
    [leds |-> update_leds(g, ledsv, filtered, antenna_mode, flags).leds, g |-> g]

\* main.py:488-499: the top of a cycle and the toggle block, whose call of
\* update_leds returns or raises.  Lines 494-497 assign leds[3] whatever
\* auto_update_led[3] is, and the block has no try: what update_leds raises
\* leaves the loop and main()
ToggleBlock(due, raises) ==
    /\ sched.pc = "toggle" /\ sched.alive /\ sched.cycles < MaxCycles
    /\ IF due.toggle
       THEN LET g0 == Value(Ports, onboard_led, 1 - sched.onboard)
                l0 == [leds EXCEPT ![4] = IF ~calibrating
                                          THEN <<0, 1 - leds[4][2], 0>>
                                          ELSE <<0, 0, 1 - leds[4][3]>>]
            IN  \E r \in {IF raises
                          THEN update_leds_raises(g0, l0, filtered_voltages, sched.mode,
                                                  auto_update_led)
                          ELSE update_leds(g0, l0, filtered_voltages, sched.mode,
                                           auto_update_led)} :
                /\ leds' = r.leds /\ ledhw' = r.g.led /\ hw' = r.g.hw
                /\ upd' = Foreign(r.g.pins)
                /\ sched' = [sched EXCEPT !.pc = IF raises THEN "toggle" ELSE "led",
                                          !.due = due, !.cycles = @ + 1,
                                          !.refreshed = FALSE, !.onboard = 1 - @,
                                          !.alive = ~raises,
                                          !.raised = IF raises THEN "toggle" ELSE @]
       ELSE /\ sched' = [sched EXCEPT !.pc = "led", !.due = due, !.cycles = @ + 1,
                                      !.refreshed = FALSE]
            /\ UNCHANGED <<leds, ledhw, hw, upd>>
    /\ UNCHANGED <<codecVars, hist, railVars, listener, spi, adc, auto_update_led, boot>>

\* the toggle block when nothing raises
SchedToggle(due) == ToggleBlock(due, FALSE)

\* main.py:502-513: the LED block, whose call of update_leds returns or
\* raises; the except of line 509 catches what it raises
LedBlock(levels, raises) ==
    /\ sched.pc = "led" /\ sched.alive
    /\ IF sched.due.led
       THEN \E m \in {read_mode(Ports, levels)} :
            \E r \in {IF raises
                      THEN update_leds_raises(m.g, leds, filtered_voltages, m.mode,
                                              auto_update_led)
                      ELSE update_leds(m.g, leds, filtered_voltages, m.mode,
                                       auto_update_led)} :
                /\ leds' = r.leds /\ ledhw' = r.g.led /\ hw' = r.g.hw
                /\ upd' = Foreign(r.g.pins)
                /\ sched' = [sched EXCEPT !.pc = "volt", !.mode = m.mode,
                                          !.refreshed = ~raises,
                                          !.raised = IF raises THEN "led" ELSE @]
       ELSE /\ sched' = [sched EXCEPT !.pc = "volt"]
            /\ UNCHANGED <<leds, ledhw, hw, upd>>
    /\ UNCHANGED <<codecVars, hist, railVars, listener, spi, adc, auto_update_led, boot>>

\* the LED block when nothing raises
SchedLed(levels) == LedBlock(levels, FALSE)

\* main.py:515-523: the voltage block; the call of line 519 raises
\* TypeError, which is caught and printed
SchedVolt ==
    /\ sched.pc = "volt" /\ sched.alive
    /\ sched' = [sched EXCEPT !.pc = "toggle"]
    /\ lastOp' = IF sched.due.volt THEN Op("maintick", current_wipers, <<>>, FALSE) ELSE lastOp
    /\ UNCHANGED <<codecVars, busVars, leds, ledhw, upd, listener, spi, adc, auto_update_led, boot, config,
                   target_voltages, current_wipers, filtered_voltages, calibrating,
                   auto_control, calibration, calFile, pots, cal, tick, nticks, ncmds>>

\* the <idx> and <rgb>|auto arguments of setled: the text of an integer or
\* not, and the word auto or a string of characters
MaxLedCmds == 2
AutoMode == [auto |-> TRUE, rgb |-> <<>>]
Rgb(c) == [auto |-> FALSE, rgb |-> c]
LedIdxArgs == {IntText(0), IntText(1), IntText(2), IntText(3), IntText(4), NotAnInt}
LedModeArgs == {AutoMode, Rgb(<<1, 0, 1>>), Rgb(<<0, 1, 1>>), Rgb(<<0, 1>>), Rgb(<<2, 0, 0>>)}

\* main.py:305-320 command_setled, which catches what it raises itself
CmdSetLed(idx, mode) ==
    /\ listener.alive /\ ncmds < MaxLedCmds
    /\ LET known == idx.int /\ idx.n \in DOMAIN auto_update_led
           rgb   == ~mode.auto /\ Len(mode.rgb) = 3
                    /\ \A k \in 1..Len(mode.rgb) : mode.rgb[k] \in {0, 1}
       IN  /\ auto_update_led' =
                 IF known /\ mode.auto
                 THEN [auto_update_led EXCEPT ![idx.n] = [auto |-> TRUE, manual |-> None]]
                 ELSE IF known /\ rgb
                 THEN [auto_update_led EXCEPT
                          ![idx.n] = [auto |-> FALSE, manual |-> Some(mode.rgb)]]
                 ELSE auto_update_led
           /\ leds' = IF known /\ rgb THEN [leds EXCEPT ![idx.n + 1] = mode.rgb] ELSE leds
           /\ listener' = command_listener(listener, Line(<<"setled", idx, mode>>), "none",
                                            ~(known /\ (mode.auto \/ rgb)))
    /\ ncmds' = ncmds + 1
    /\ UNCHANGED <<codecVars, busVars, ledhw, sched, upd, boot, spi, adc, config,
                   target_voltages, current_wipers, filtered_voltages, calibrating,
                   auto_control, calibration, calFile, pots, cal, lastOp, tick, nticks>>

\* command_setaz .. command_setss in three steps, for the scheduler to run
\* in between: the value is parsed and tested and the other fields are read
\* (main.py:200-206)
UpdRead(F, arg) ==
    /\ upd.pc = "idle" /\ listener.alive /\ Len(hist) < MaxUpdates
    /\ IF ~arg.int \/ (RangeChecked(F) /\ ~(0 <= arg.n /\ arg.n < RangeLimit[F]))
       THEN /\ hist' = Append(hist, Entry("set", F, arg, FALSE, None, Latched(hw)))
            /\ UNCHANGED <<hw, upd>>
       ELSE \E r \in {ReadOthers(Begin(hw), F, 1,
                                 [G \in FieldSet |-> IF G = F THEN Some(arg.n) ELSE None])} :
                /\ hw' = r.hw
                /\ upd' = [pc |-> "build", F |-> F, n |-> arg.n, vals |-> r.vals, pat |-> <<>>,
                           hw |-> r.hw, before |-> Latched(hw), foreign |-> {}]
                /\ UNCHANGED hist
    /\ UNCHANGED <<codecVars, railVars, leds, ledhw, sched, listener, spi, adc, auto_update_led, boot>>

\* main.py:207: build_cpld_pattern
UpdBuild ==
    /\ upd.pc = "build"
    /\ \E b \in {build_cpld_pattern(hw, upd.vals)} :
           /\ hw' = b.hw
           /\ upd' = [upd EXCEPT !.pc = "write", !.pat = b.pat, !.hw = b.hw]
    /\ UNCHANGED <<codecVars, hist, railVars, leds, ledhw, sched, listener, spi, adc, auto_update_led, boot>>

\* main.py:208-209: update_shift_registers and the report
UpdWrite ==
    /\ upd.pc = "write"
    /\ \E r \in {update_shift_registers(hw, [t |-> "list", v |-> upd.pat])} :
           /\ hw' = r.hw
           /\ hist' = Append(hist, Entry("set", upd.F, IntText(upd.n), r.ok, None, upd.before))
           /\ upd' = [upd EXCEPT !.pc = "idle", !.hw = r.hw]
    /\ UNCHANGED <<codecVars, railVars, leds, ledhw, sched, listener, spi, adc, auto_update_led, boot>>

\* update_shift_registers statement by statement (antenna_mode.py:128-132),
\* on u = upd and the chain h: u.pc names the statement to run next, u.n is
\* the index of the loop, u.pat the converted bits.  The result is [upd, hw].
WritePcs == {"oe", "rclk0", "ser", "clk1", "clk0", "lat1", "lat0"}

update_step(u, h) ==
    CASE u.pc = "oe"    -> [upd |-> [u EXCEPT !.pc = "rclk0"], hw |-> DriveOE(h, 0)]
      [] u.pc = "rclk0" -> [upd |-> [u EXCEPT !.pc = IF Len(u.pat) > 0 THEN "ser" ELSE "lat1",
                                              !.n = 0],
                            hw |-> DriveRCLK(h, 0)]
      [] u.pc = "ser"   -> [upd |-> [u EXCEPT !.pc = "clk1"], hw |-> DriveSER(h, u.pat[u.n + 1])]
      [] u.pc = "clk1"  -> [upd |-> [u EXCEPT !.pc = "clk0"], hw |-> DriveSRCLK(h, 1)]
      [] u.pc = "clk0"  -> [upd |-> [u EXCEPT !.pc = IF u.n + 1 < Len(u.pat) THEN "ser" ELSE "lat1",
                                              !.n = u.n + 1],
                            hw |-> DriveSRCLK(h, 0)]
      [] u.pc = "lat1"  -> [upd |-> [u EXCEPT !.pc = "lat0"], hw |-> DriveRCLK(h, 1)]
      [] u.pc = "lat0"  -> [upd |-> [u EXCEPT !.pc = "idle"], hw |-> DriveRCLK(h, 0)]

\* a variant that pulses the latch clock after every bit
WriteStep_latch_each_bit(u, h) ==
    IF u.pc = "clk0"
    THEN [upd |-> update_step(u, h).upd,
          hw |-> DriveRCLK(DriveRCLK(update_step(u, h).hw, 1), 0)]
    ELSE update_step(u, h)

\* a variant that raises the shift clock before it sets the data line
WriteStep_clock_before_data(u, h) ==
    CASE u.pc = "ser"  -> [upd |-> [u EXCEPT !.pc = "clk1"], hw |-> DriveSRCLK(h, 1)]
      [] u.pc = "clk1" -> [upd |-> [u EXCEPT !.pc = "clk0"], hw |-> DriveSER(h, u.pat[u.n + 1])]
      [] OTHER         -> update_step(u, h)

WriteStep(u, h) == update_step(u, h)

\* command_cpld_write (main.py:191-196) up to the first statement that
\* drives a pin: the data are converted (antenna_mode.py:126), and a
\* conversion that raises ends the command
WrBegin(data) ==
    /\ upd.pc = "idle" /\ Len(hist) < MaxCmds
    /\ \E c \in {convert_to_bits(data)} :
           IF ~c.ok
           THEN /\ hist' = Append(hist, Entry("cpld_write", "", data, FALSE, None, Latched(hw)))
                /\ UNCHANGED <<hw, upd>>
           ELSE /\ hw' = Begin(hw)
                /\ upd' = [IdleUpd EXCEPT !.pc = "oe", !.pat = c.bits, !.hw = Begin(hw),
                                          !.before = Latched(hw)]
                /\ UNCHANGED hist
    /\ UNCHANGED <<codecVars, railVars, leds, ledhw, sched, listener, spi, adc, auto_update_led, boot>>

\* the next statement of the write; after the last one the command reports
WrStep ==
    /\ upd.pc \in WritePcs
    /\ \E r \in {WriteStep(upd, hw)} :
           /\ hw' = r.hw
           /\ upd' = r.upd
           /\ hist' = IF r.upd.pc = "idle"
                      THEN Append(hist, Entry("cpld_write", "", [t |-> "list", v |-> upd.pat],
                                              TRUE, None, upd.before))
                      ELSE hist
    /\ UNCHANGED <<codecVars, railVars, leds, ledhw, sched, listener, spi, adc, auto_update_led, boot>>

\* ------------------------------------------------------------------------
\* set_wiper statement by statement in the two threads (voltage_control.py:
\* 70-80; main.py:467 starts the listener before main() writes the wipers at
\* lines 474-479)
\* ------------------------------------------------------------------------

Contexts == {"main", "cmd"}

\* a context's set_wiper call: the statement to run next, the arguments, and
\* for setres the key and whether line 116 has run
IdleTx == [pc |-> "idle", k |-> 0, pot |-> 0, value |-> 0, key |-> "", recorded |-> FALSE]

\* the chip-select line (config.py:85, idle high), the contexts between
\* their cs.value(0) and their cs.value(1), and the byte pairs written, each
\* with the level chip-select had
IdleSpi == [cs |-> 1, inside |-> {}, wire |-> {}, main |-> IdleTx, cmd |-> IdleTx]

\* main.py:474-479: the four calls of startup
StartupCalls == <<"adjustable", "fixed", "adjustable", "fixed">>

\* main() about to make the first of them, the listener started
StartSpi == [IdleSpi EXCEPT !.main = [IdleTx EXCEPT !.pc = "arg", !.k = 1]]

\* main.py:474-479: the argument current_wipers[...] is evaluated and the
\* call enters set_wiper, whose tests (lines 71-74) pass for 0..255
MainArg ==
    /\ spi.main.pc = "arg"
    /\ spi' = [spi EXCEPT !.main.pc = "cs0",
                          !.main.pot = PotOf(StartupCalls[spi.main.k]),
                          !.main.value = current_wipers[StartupCalls[spi.main.k]]]
    /\ UNCHANGED <<codecVars, busVars, railVars, leds, ledhw, sched, upd, listener, boot, adc, auto_update_led>>

\* voltage_control.py:78 cs.value(0)
TxCsLow(c) ==
    /\ spi[c].pc = "cs0"
    /\ spi' = [spi EXCEPT ![c].pc = "write", !.cs = 0, !.inside = @ \cup {c}]
    /\ UNCHANGED <<codecVars, busVars, railVars, leds, ledhw, sched, upd, listener, boot, adc, auto_update_led>>

\* voltage_control.py:79 spi.write(bytes((cmd, raw_value))): the chip takes
\* the bytes while it is selected
TxWrite(c) ==
    /\ spi[c].pc = "write"
    /\ spi' = [spi EXCEPT ![c].pc = "cs1",
                          !.wire = @ \cup {[by |-> c, pot |-> spi[c].pot,
                                             value |-> spi[c].value, cs |-> spi.cs]}]
    /\ pots' = IF spi.cs = 0 THEN [pots EXCEPT ![spi[c].pot] = spi[c].value] ELSE pots
    /\ UNCHANGED <<codecVars, busVars, leds, ledhw, sched, upd, listener, boot, adc, auto_update_led>>
    /\ UNCHANGED <<config, target_voltages, current_wipers, filtered_voltages, calibrating,
                   auto_control, calibration, calFile, cal, lastOp, tick, nticks, ncmds>>

\* voltage_control.py:80 cs.value(1); main() goes on to its next call or to
\* its loop, command_setres to line 116
TxCsHigh(c) ==
    /\ spi[c].pc = "cs1"
    /\ spi' = [spi EXCEPT !.cs = 1, !.inside = @ \ {c},
                          ![c].pc = IF c = "cmd" THEN "record"
                                    ELSE IF spi.main.k < Len(StartupCalls) THEN "arg" ELSE "loop",
                          ![c].k = IF c = "main" /\ spi.main.k < Len(StartupCalls)
                                   THEN @ + 1 ELSE @]
    /\ UNCHANGED <<codecVars, busVars, railVars, leds, ledhw, sched, upd, listener, boot, adc, auto_update_led>>

\* main.py:110-115 command_setres up to cs.value(0): the arguments are
\* parsed and set_wiper tests them; an exception ends the command
SetResBegin(pot, value) ==
    /\ listener.alive /\ spi.cmd.pc = "idle" /\ ncmds < MaxRailCmds
    /\ ncmds' = ncmds + 1
    /\ LET key == PotKey(pot)
           ok  == value.int /\ 0 <= value.n /\ value.n <= WiperMax
       IN  IF ok
           THEN /\ spi' = [spi EXCEPT !.cmd = [pc |-> "cs0", k |-> 0, pot |-> PotOfKey(key),
                                               value |-> value.n, key |-> key,
                                               recorded |-> FALSE]]
                /\ UNCHANGED <<lastOp, listener>>
           ELSE /\ lastOp' = Op("setres", current_wipers, <<>>, FALSE)
                /\ listener' = command_listener(listener, Line(<<"setres", pot, value>>),
                                                "none", TRUE)
                /\ UNCHANGED spi
    /\ UNCHANGED <<codecVars, busVars, leds, ledhw, sched, upd, boot, adc, auto_update_led>>
    /\ UNCHANGED <<config, target_voltages, current_wipers, filtered_voltages, calibrating,
                   auto_control, calibration, calFile, pots, cal, tick, nticks>>

\* main.py:116-118: the wiper is recorded and the rail leaves automatic mode
SetResRecord ==
    /\ spi.cmd.pc = "record"
    /\ spi' = [spi EXCEPT !.cmd.pc = "idle", !.cmd.recorded = TRUE]
    /\ current_wipers' = IF spi.cmd.key \in Channels
                         THEN [current_wipers EXCEPT ![spi.cmd.key] = spi.cmd.value]
                         ELSE current_wipers
    /\ auto_control' = IF spi.cmd.key \in Channels
                       THEN [auto_control EXCEPT ![spi.cmd.key] = FALSE]
                       ELSE auto_control
    /\ lastOp' = Op("setres", current_wipers,
                    <<[pot |-> spi.cmd.pot, value |-> spi.cmd.value]>>, TRUE)
    /\ listener' = command_listener(listener, Line(<<"setres", spi.cmd.key,
                                                     IntText(spi.cmd.value)>>), "none", FALSE)
    /\ UNCHANGED <<codecVars, busVars, leds, ledhw, sched, upd, boot, adc, auto_update_led>>
    /\ UNCHANGED <<config, target_voltages, filtered_voltages, calibrating,
                   calibration, calFile, pots, cal, tick, nticks, ncmds>>

\* main.py:515-522 in main()'s loop, after startup
LoopTick == spi.main.pc = "loop" /\ MainTick

\* main.py:414-432: an iteration of command_listener on a line that ends
\* before any handler changes state: end of input, an empty line, a word
\* that is no command, a call whose arguments do not bind, or a command that
\* only prints
MaxServed == 2

Lines == {Eof, Line(<<>>), Line(<<"frobnicate", "1">>), Line(<<"setres", "fixed">>),
          Line(<<"calibrate">>), Line(<<"readaz", "now">>), Line(<<"readvolt", "fixed">>)}

ListenLine(inp) ==
    /\ listener.alive /\ cal.pc = "idle" /\ upd.pc = "idle"
    /\ listener.served < MaxServed
    /\ listener' = command_listener(listener, inp,
                                    IF ~inp.eof /\ inp.words # <<>> /\ inp.words[1] \in commands
                                    THEN BindArgs(inp.words) ELSE "none",
                                    FALSE)
    /\ lastOp' = Op("line", current_wipers, <<>>, listener'.report \notin ErrorReports)
    /\ UNCHANGED <<codecVars, busVars, ctxRest, config, target_voltages, current_wipers,
                   filtered_voltages, calibrating, auto_control, calibration, calFile,
                   pots, cal, tick, nticks, ncmds>>

\* ------------------------------------------------------------------------
\* Startup: the imports and main() up to its loop (antenna_mode.py:59-91,
\* voltage_control.py:167, main.py:93-98 and 464-486)
\* ------------------------------------------------------------------------

MaxBoots == 2

\* the widths the commands give the fields (main.py:70-75)
GroupSizes == [F \in FieldSet |->
                 CASE F = "AZ" -> 24 [] F = "EL" -> 2 [] F = "FM" -> 4
                   [] F = "AT" -> 3 [] F = "PE" -> 2 [] F = "SS" -> 5]

\* antenna_mode.py:38-46: the table of the source, and the table with one
\* entry edited: an azimuth pin taken for ground, a ground pin taken for a
\* third elevation bit
WiringTables ==
    [name \in {"as built", "AZ_23 as DGND", "DGND as EL_02"} |->
       CASE name = "as built" -> PIN_TO_SIGNAL
         [] name = "AZ_23 as DGND" -> [PIN_TO_SIGNAL EXCEPT ![9] = Sig("DGND", 0)]
         [] name = "DGND as EL_02" -> [PIN_TO_SIGNAL EXCEPT ![24] = Sig("EL", 2)]]

\* antenna_mode.py:59-91: the number of stages whose signal starts with the
\* prefix of the field, which is the length of the field's stage list
GroupSize(table, F) ==
    Cardinality({k \in 1..Len(STAGE_TO_PIN) : table[STAGE_TO_PIN[k]].f = F})

\* the stored records a run may find
SlopeFields == {JMissing, JBad, JNum(13000, ADC_MAX)}
InterceptFields == {JMissing, JBad, JNum(500 * ADC_MAX, ADC_MAX)}
Entries == {NoEntry, NotADict} \cup
           {Dict(sl, ic) : sl \in SlopeFields, ic \in InterceptFields}
Files == {NoFile} \cup
         {[present |-> TRUE, data |-> d, writes |-> 0] :
            d \in {Garbage, NotAnObject} \cup {Object(e) : e \in [Channels -> Entries]}}

\* the listener's thread before main.py:467
NotStarted == [alive |-> FALSE, report |-> "not started", served |-> 0, errors |-> 0]

\* config.py:33
DarkLeds == << <<0, 0, 0>>, <<0, 0, 0>>, <<0, 0, 0>>, <<0, 0, 0>> >>

\* the imports of main.py:1-43: antenna_mode builds its stage lists from the
\* table and voltage_control loads the stored calibration (line 167)
ImportModules ==
    /\ boot.phase = "off"
    /\ boot' = [boot EXCEPT !.phase = "imported"]
    /\ \E r \in {load_calibration(calibration, calFile)} :
           /\ calibration' = r.calibration
           /\ lastOp' = [Op("load", current_wipers, <<>>, TRUE)
                           EXCEPT !.failed = IF r.caught THEN "caught" ELSE ""]
    /\ UNCHANGED <<codecVars, busVars, leds, ledhw, sched, upd, listener, spi, adc, auto_update_led, config,
                   target_voltages, current_wipers, filtered_voltages, calibrating,
                   auto_control, calFile, pots, cal, tick, nticks, ncmds>>

\* main.py:464-486: main() up to its loop
MainStartup(counts, levels) ==
    /\ boot.phase = "imported"
    /\ boot' = [boot EXCEPT !.phase = "serving"]
    /\ leds' = [leds EXCEPT ![4] = <<0, 1, 0>>]
    /\ listener' = IdleListener
    /\ filtered_voltages' = [ch \in Channels |-> read_voltage(calibration, ch, counts[ch])]
    /\ LET w1 == set_wiper(pots, <<>>, 0, current_wipers["adjustable"])
           w2 == set_wiper(w1.pots, w1.writes, 1, current_wipers["fixed"])
           w3 == set_wiper(w2.pots, w2.writes, 0, current_wipers["adjustable"])
           w4 == set_wiper(w3.pots, w3.writes, 1, current_wipers["fixed"])
       IN  /\ pots' = w4.pots
           /\ lastOp' = Op("startup", current_wipers, w4.writes, w4.ok)
    /\ \E m \in {read_mode(Ports, levels)} :
           /\ sched' = MainStart(m.mode)
           /\ hw' = m.g.hw /\ ledhw' = m.g.led
    /\ UNCHANGED <<codecVars, hist, upd, spi, adc, auto_update_led, config, target_voltages, current_wipers,
                   calibrating, auto_control, calibration, calFile, cal, tick, nticks,
                   ncmds>>

\* main.py:172-174 command_resetcal; cal keeps the records as they were
\* before the command
CmdResetCal ==
    /\ listener.alive /\ cal.pc = "idle" /\ ncmds < MaxRailCmds
    /\ \E r \in {reset_calibration(calibration, calFile)} :
           /\ calibration' = r.calibration
           /\ calFile' = r.file
    /\ cal' = [IdleCal EXCEPT !.result = "reset", !.cal0 = calibration, !.file0 = calFile]
    /\ lastOp' = Op("resetcal", current_wipers, <<>>, TRUE)
    /\ listener' = command_listener(listener, Line(<<"resetcal">>), "none", FALSE)
    /\ ncmds' = ncmds + 1
    /\ UNCHANGED <<codecVars, busVars, ctxRest, config, target_voltages, current_wipers,
                   filtered_voltages, calibrating, auto_control, pots, tick, nticks>>

\* the interpreter starts again: the modules' state is as their first lines
\* make it (voltage_control.py:23-27, main.py:93-98, config.py:33); the file
\* and the hardware keep theirs
Restart ==
    /\ boot.phase = "serving" /\ cal.pc = "idle" /\ upd.pc = "idle"
    /\ boot.boots < MaxBoots
    /\ boot' = [boot EXCEPT !.phase = "off", !.boots = @ + 1]
    /\ calibration' = DefaultCalibration
    /\ target_voltages' = DEFAULT_TARGET_VOLTAGES
    /\ current_wipers' = [ch \in Channels |-> WiperMax]
    /\ filtered_voltages' = [ch \in Channels |-> 0]
    /\ calibrating' = FALSE
    /\ auto_control' = [ch \in Channels |-> TRUE]
    /\ leds' = DarkLeds
    /\ listener' = NotStarted
    /\ sched' = MainStart(0)
    /\ lastOp' = Op("restart", current_wipers, <<>>, TRUE)
    /\ UNCHANGED <<codecVars, busVars, ledhw, upd, spi, adc, auto_update_led, config, calFile, pots, cal, tick,
                   nticks, ncmds>>

\* the command context's process and startup, at rest
Booted == [phase |-> "serving", table |-> "as built", boots |-> 1]

CtxIdle ==
    /\ leds = StartLeds
    /\ ledhw = IdleLeds
    /\ sched = MainStart(0)
    /\ upd = IdleUpd
    /\ listener = IdleListener
    /\ boot = Booted
    /\ spi = IdleSpi
    /\ adc = IdleAdc /\ auto_update_led = StartAuto

CtxInit ==
    /\ leds = StartLeds
    /\ ledhw = IdleLeds
    /\ \E levels \in ModeLevels : sched = MainStart(read_mode(Ports, levels).mode)
    /\ upd = IdleUpd
    /\ listener = IdleListener
    /\ boot = Booted
    /\ spi = IdleSpi
    /\ adc = IdleAdc /\ auto_update_led = StartAuto

\* a field update of the command context and the scheduler's cycle, in any
\* order
UpdateNext ==
    \/ \E due \in DueSets : SchedToggle(due)
    \/ \E levels \in ModeLevels : SchedLed(levels)
    \/ SchedVolt
    \/ \E F \in FieldSet : \E arg \in {IntText(Alternating(Width(F))), NotAnInt} : UpdRead(F, arg)
    \/ UpdBuild
    \/ UpdWrite

\* a raw write in the command context, statement by statement
WriteNext ==
    \/ \E data \in StepData : WrBegin(data)
    \/ WrStep

\* main() from its first wiper write on, and setres commands of the
\* listener thread, statement by statement in any order
ThreadsNext ==
    \/ MainArg
    \/ \E c \in Contexts : TxCsLow(c)
    \/ \E c \in Contexts : TxWrite(c)
    \/ \E c \in Contexts : TxCsHigh(c)
    \/ \E pot \in Channels, value \in {IntText(100), NotAnInt} : SetResBegin(pot, value)
    \/ SetResRecord
    \/ LoopTick

\* a calibration whose settling loops sample the ADC of one scene
SettleNext ==
    \/ \E arg \in {"fixed", "all"} : CmdCalibrate(arg, First("poll_low"))
    \/ SettlePoll
    \/ \E answer \in {Number(500), NotANumber} : CalAnswerLow(answer, First("poll_high"))
    \/ \E answer \in {Number(9000), NotANumber} : CalAnswerHigh(answer, First("poll_low"))

\* raw counts of a tick in which the read of one rail raises, or of none
FaultScenes == {[ch \in Channels |-> IF ch = "fixed" THEN ReadFails ELSE 0],
                [ch \in Channels |-> IF ch = "adjustable" THEN ReadFails ELSE 0],
                [ch \in Channels |-> 0]}

\* the scheduler's cycle, and the regulation tick on rails whose read may
\* raise
CycleNext ==
    \/ \E due \in DueSets : SchedToggle(due)
    \/ \E levels \in ModeLevels : SchedLed(levels)
    \/ SchedVolt
    \/ \E counts \in FaultScenes : Tick(counts)

\* main()'s loop with the calls of update_leds returning or raising, and
\* the setled command from the listener's thread
LedsNext ==
    \/ \E due \in DueSets, raises \in BOOLEAN : ToggleBlock(due, raises)
    \/ \E levels \in ModeLevels, raises \in BOOLEAN : LedBlock(levels, raises)
    \/ SchedVolt
    \/ \E idx \in LedIdxArgs, mode \in LedModeArgs : CmdSetLed(idx, mode)

\* startup, the reset command and a restart
BootNext ==
    \/ ImportModules
    \/ \E counts \in {[ch \in Channels |-> NominalCount(ch)]}, levels \in ModeLevels :
         MainStartup(counts, levels)
    \/ CmdResetCal
    \/ Restart

\* the command listener on lines of every kind, and the scheduler's cycle
ListenerNext ==
    \/ \E inp \in Lines : ListenLine(inp)
    \/ \E pot \in {"fixed"}, value \in {IntText(0), NotAnInt} : CmdSetRes(pot, value)
    \/ \E ch \in {"adjustable", "both"}, voltage \in {Number(12000), NotANumber} :
         CmdSetVolt(ch, voltage)
    \/ \E arg \in {"fixed", "both"}, prev \in {1000} : CmdCalibrate(arg, prev)
    \/ \E curr \in {1000} : CalPoll(curr)
    \/ \E answer \in {Number(500), NotANumber}, prev \in {1000} : CalAnswerLow(answer, prev)
    \/ \E answer \in {Number(9000), NotANumber}, prev \in {1000} : CalAnswerHigh(answer, prev)
    \/ \E due \in DueSets : SchedToggle(due)
    \/ \E levels \in ModeLevels : SchedLed(levels)
    \/ SchedVolt

\* each specification runs one part of the firmware and leaves the rest idle
InitCodec == CodecInit /\ BusIdle /\ RailIdle /\ CtxIdle
InitBus == BusInit /\ CodecIdle /\ RailIdle /\ CtxIdle
InitField == FieldInit /\ CodecIdle /\ RailIdle /\ CtxIdle
InitRail == RailInit /\ CodecIdle /\ BusIdle /\ CtxIdle
InitUpdate == FieldInit /\ CodecIdle /\ RailIdle /\ CtxInit
InitCycle == RailInit /\ CodecIdle /\ BusIdle /\ CtxInit
InitSettle ==
    /\ RailInit /\ CodecIdle /\ BusIdle
    /\ leds = StartLeds /\ ledhw = IdleLeds /\ sched = MainStart(0) /\ upd = IdleUpd
    /\ listener = IdleListener /\ boot = Booted /\ spi = IdleSpi
    /\ \E scene \in AdcScenes : adc = [IdleAdc EXCEPT !.scene = scene]
    /\ auto_update_led = StartAuto
InitThreads ==
    /\ RailInit /\ CodecIdle /\ BusIdle
    /\ leds = StartLeds /\ ledhw = IdleLeds /\ sched = MainStart(0) /\ upd = IdleUpd
    /\ listener = IdleListener /\ boot = Booted
    /\ spi = StartSpi /\ adc = IdleAdc /\ auto_update_led = StartAuto
InitBoot ==
    /\ CodecIdle /\ BusIdle
    /\ config \in [alpha : FilterAlphas, targets : DefaultTargets]
    /\ target_voltages = DEFAULT_TARGET_VOLTAGES
    /\ current_wipers = [ch \in Channels |-> WiperMax]
    /\ filtered_voltages = [ch \in Channels |-> 0]
    /\ calibrating = FALSE
    /\ auto_control = [ch \in Channels |-> TRUE]
    /\ calibration = DefaultCalibration
    /\ calFile \in Files
    /\ pots = [p \in {0, 1} |-> WiperMax]
    /\ cal = IdleCal
    /\ lastOp = Op("none", [ch \in Channels |-> WiperMax], <<>>, TRUE)
    /\ tick = IdleTick
    /\ nticks = 0
    /\ ncmds = 0
    /\ leds = DarkLeds
    /\ ledhw = IdleLeds
    /\ sched = MainStart(0)
    /\ upd = IdleUpd
    /\ spi = IdleSpi
    /\ adc = IdleAdc /\ auto_update_led = StartAuto
    /\ listener = NotStarted
    /\ boot \in [phase : {"off"}, table : DOMAIN WiringTables, boots : {1}]

SpecCodec == InitCodec /\ [][CodecNext]_vars
SpecBus == InitBus /\ [][BusNext]_vars
SpecReadout == InitBus /\ [][ReadoutNext]_vars
SpecWrite == InitBus /\ [][WriteNext]_vars
SpecThreads == InitThreads /\ [][ThreadsNext]_vars

\* the settling loop runs in the command context, which sleeps one second
\* between two polls (voltage_control.py:108) and is never held up for good
SpecSettle == InitSettle /\ [][SettleNext]_vars /\ WF_vars(SettlePoll)
SpecField == InitField /\ [][FieldNext]_vars
SpecFieldErr == InitField /\ [][FieldErrNext]_vars
SpecOneHot == InitField /\ [][OneHotNext]_vars
SpecRegulation == InitRail /\ [][RegulationNext]_vars
SpecCalibration == InitRail /\ [][CalibrationNext]_vars
SpecRace == InitRail /\ [][RaceNext]_vars
SpecUpdate == InitUpdate /\ [][UpdateNext]_vars
SpecCycle == InitCycle /\ [][CycleNext]_vars
SpecLeds == InitCycle /\ [][LedsNext]_vars
SpecListener == InitCycle /\ [][ListenerNext]_vars
SpecBoot == InitBoot /\ [][BootNext]_vars

\* ------------------------------------------------------------------------
\* Properties of the bit codec (SpecCodec)
\* ------------------------------------------------------------------------

\* sum(b[i] << i) for the 0-based indices lo..hi-1, weighted from 2^0
RECURSIVE SumBits(_, _, _)
SumBits(b, lo, hi) == IF hi <= lo THEN 0 ELSE b[lo + 1] + 2 * SumBits(b, lo + 1, hi)

\* sum(b[i] << i for i in range(48)) as the limbs of the number
BitsValue(b) == <<SumBits(b, 0, LimbBits), SumBits(b, LimbBits, NBITS)>>

IsBitVector(v) == Len(v) = NBITS /\ \A k \in 1..NBITS : v[k] \in {0, 1}

\* C7: for an integer n in 0..2^48-1, convert_to_bits(n) is a vector b of
\* exactly 48 bits with sum(b[i] << i) = n; and for a 48-element list v of
\* 0/1 values, convert_to_bits(v) = v.
C7_CodecRoundTrip ==
    /\ (cv_out["int"] # NotRun /\ Limb(cv_n, 2) = 0) =>
          /\ cv_out["int"].ok
          /\ IsBitVector(cv_out["int"].bits)
          /\ BitsValue(cv_out["int"].bits) = <<Limb(cv_n, 0), Limb(cv_n, 1)>>
    /\ (cv_rawout # NotRun /\ cv_raw.t = "list" /\ IsBitVector(cv_raw.v)) =>
          cv_rawout = Ok(cv_raw.v)

C7_Witness ==
    /\ cv_out["int"] # NotRun
    /\ cv_n = <<10855845, 5921370, 0>>
    /\ cv_out["int"].bits[1] = 1 /\ cv_out["int"].bits[NBITS] = 0

\* the LSB-first expansion of n masked to its low 48 bits
Low48(n) == [k \in 1..NBITS |-> (Limb(n, (k - 1) \div LimbBits) \div 2 ^ ((k - 1) % LimbBits)) % 2]

\* C8: for a non-negative integer n, 2^48 and more included, convert_to_bits
\* of n, of '0x' + the hex digits of n (in either case) and of the MSB-first
\* binary string of n all return the LSB-first expansion of n masked to its
\* low 48 bits: short strings are zero-padded on the high side and a binary
\* string keeps its last 48 characters.
C8_FormatEquivalence ==
    \A f \in Forms : cv_out[f] # NotRun => cv_out[f] = Ok(Low48(cv_n))

C8_Witness ==
    /\ \A f \in Forms : cv_out[f] # NotRun
    /\ cv_n = <<10855845, 5921370, 1>>

\* ------------------------------------------------------------------------
\* Properties of the register bus (SpecBus)
\* ------------------------------------------------------------------------

Last == hist[Len(hist)]

\* C5: after read_shift_registers returns, the pattern on the parallel
\* outputs and the content of the shift path both equal the pattern latched
\* before the read, whatever the level of the serial-data line; and two
\* consecutive reads return the same vector.
C5_ReadNonDestructive ==
    /\ (hist # <<>> /\ Last.cmd = "readcpld") =>
          /\ Latched(hw) = Last.before
          /\ ShiftPath(hw) = Last.before
    /\ \A i \in 1..(Len(hist) - 1) :
          (hist[i].cmd = "readcpld" /\ hist[i + 1].cmd = "readcpld") =>
              hist[i + 1].ret = hist[i].ret

C5_Witness ==
    /\ Len(hist) = 2
    /\ hist[1].cmd = "readcpld" /\ hist[2].cmd = "readcpld"
    /\ hist[1].before = Mixed /\ hist[2].ret = Mixed

\* C6: update_shift_registers(v) for a 48-bit vector v followed by
\* read_shift_registers() returns v, element for element.
C6_WriteReadRoundTrip ==
    \A i \in 1..(Len(hist) - 1) :
        (/\ hist[i].cmd = "cpld_write" /\ hist[i].arg.t = "list" /\ hist[i].ok
         /\ hist[i + 1].cmd = "readcpld") =>
            hist[i + 1].ret = hist[i].arg.v

C6_Witness ==
    /\ Len(hist) = 2
    /\ hist[1].cmd = "cpld_write" /\ hist[1].ok /\ hist[1].arg = [t |-> "list", v |-> OneHot(0)]
    /\ hist[2].cmd = "readcpld" /\ hist[2].ret = OneHot(0)

\* C9: update_shift_registers given a list that is not 48 values of 0/1, a
\* string that is neither 0x-hex nor all 0/1 characters, or a value of
\* another type fails before it changes any line of the bus, and the latched
\* pattern is what it was.
C9_BadInputNoSideEffect ==
    (hist # <<>> /\ Last.cmd = "cpld_write" /\ Last.arg \in BadData) =>
        /\ ~Last.ok
        /\ hw.drives = 0 /\ hw.shifts = 0 /\ hw.latches = 0
        /\ Latched(hw) = Last.before

C9_Witness ==
    /\ Len(hist) = 2
    /\ hist[1].cmd = "cpld_write" /\ hist[1].ok
    /\ hist[2].cmd = "cpld_write" /\ hist[2].arg = [t |-> "other"]
    /\ Latched(hw) = Mixed

\* ------------------------------------------------------------------------
\* Properties of the field commands (SpecField, SpecFieldErr)
\* ------------------------------------------------------------------------

InRange(F, arg) == arg.int /\ 0 <= arg.n /\ arg.n < Pow2(Width(F))
OutOfRange(F, arg) == arg.int /\ (arg.n < 0 \/ arg.n >= Pow2(Width(F)))

\* C2: for distinct fields A and B and values x, y in their ranges, from any
\* register content, the update of B to y followed by the update of A to x
\* leaves the value read back for B equal to y.
C2_FieldIsolation ==
    \A i \in 1..(Len(hist) - 1) :
        (/\ i + 1 = Len(hist)
         /\ hist[i].cmd = "set" /\ InRange(hist[i].f, hist[i].arg)
         /\ hist[i + 1].cmd = "set" /\ InRange(hist[i + 1].f, hist[i + 1].arg)
         /\ hist[i].f # hist[i + 1].f) =>
            /\ hist[i].ok /\ hist[i + 1].ok
            /\ read_field(hw, hist[i].f).val = hist[i].arg.n

C2_Witness ==
    /\ Len(hist) = 2
    /\ hist[1].cmd = "set" /\ hist[1].f = "SS" /\ hist[1].arg = IntText(Alternating(Width("SS")))
    /\ hist[2].cmd = "set" /\ hist[2].f = "AZ" /\ hist[2].ok
    /\ hist[1].before = Ones

\* C3: for a field F and a value v in F's range, from any register content,
\* the set command for F with v succeeds and the read accessor for F then
\* returns v.
C3_SetReadRoundTrip ==
    /\ (hist # <<>> /\ Last.cmd = "set" /\ InRange(Last.f, Last.arg)) =>
          /\ Last.ok
          /\ read_field(hw, Last.f).val = Last.arg.n
    /\ \A i \in 1..(Len(hist) - 1) :
          (/\ hist[i].cmd = "set" /\ InRange(hist[i].f, hist[i].arg)
           /\ hist[i + 1].cmd = "read" /\ hist[i + 1].f = hist[i].f) =>
              hist[i + 1].ret = Some(hist[i].arg.n)

C3_Witness ==
    /\ Len(hist) = 2
    /\ hist[1].cmd = "set" /\ hist[1].f = "AZ" /\ hist[1].ok
    /\ hist[1].arg = IntText(Alternating(Width("AZ")))
    /\ hist[2].cmd = "read" /\ hist[2].f = "AZ"
    /\ hist[2].ret = Some(Alternating(Width("AZ")))

\* C4: for each of the six fields, AZ included, a set command whose value is
\* outside the field's range fails, writes nothing on the bus and leaves the
\* latched pattern as it was.
C4_OutOfRangeRejected ==
    (hist # <<>> /\ Last.cmd = "set" /\ OutOfRange(Last.f, Last.arg)) =>
        /\ ~Last.ok
        /\ hw.drives = 0
        /\ Latched(hw) = Last.before

\* C4 for the five fields whose handlers test the range: what the code does
C4_OutOfRangeRejectedButAZ ==
    (hist # <<>> /\ Last.cmd = "set" /\ OutOfRange(Last.f, Last.arg) /\ Last.f # "AZ") =>
        /\ ~Last.ok
        /\ hw.drives = 0
        /\ Latched(hw) = Last.before

\* an azimuth of 2^24 is accepted and clears the azimuth group
C4_AzimuthAccepted ==
    /\ hist # <<>> /\ Last.cmd = "set" /\ Last.f = "AZ"
    /\ Last.arg = IntText(Pow2(Width("AZ")))
    /\ Last.ok /\ hw.drives > 0
    /\ Latched(hw) # Last.before

\* ------------------------------------------------------------------------
\* Properties of the regulator and of the calibration (SpecRegulation,
\* SpecCalibration)
\* ------------------------------------------------------------------------

\* C1: after a regulation tick (the function run as defined, or called as
\* the main loop calls it), each rail's wiper differs from its value
\* before the tick by at most 1 and lies in 0..255, and every value the tick
\* wrote to a potentiometer lies in 0..255.
C1_TickStepBound ==
    lastOp.op \in {"tick", "maintick"} =>
        /\ \A ch \in Channels :
              /\ Abs(current_wipers[ch] - lastOp.wipers0[ch]) <= 1
              /\ current_wipers[ch] \in 0..WiperMax
        /\ \A k \in 1..Len(lastOp.writes) : lastOp.writes[k].value \in 0..WiperMax

\* a tick that stepped one wiper down and left the other, which is at its
\* upper end with its rail too high, where it was
C1_Witness ==
    /\ lastOp.op = "tick"
    /\ current_wipers["fixed"] = WiperMax /\ lastOp.wipers0["fixed"] = WiperMax
    /\ filtered_voltages["fixed"] - target_voltages["fixed"] >= DeadBand
    /\ current_wipers["adjustable"] = lastOp.wipers0["adjustable"] - 1
    /\ lastOp.writes = <<[pot |-> 0, value |-> current_wipers["adjustable"]]>>

\* C10: when the settled raw counts at wiper 0 and at wiper 255 are equal,
\* calibrate_channel fails, and the in-memory lines and the persisted record
\* are what they were when it began: nothing is saved.
C10_DegenerateCalibration ==
    (cal.fitted /\ cal.raw_low = cal.raw_high) =>
        /\ cal.pc = "idle" /\ cal.result = "degenerate"
        /\ calibration = cal.cal0
        /\ calFile = cal.file0

\* calibrate all: the first rail is fitted and saved, the second settles
\* at equal counts
C10_Witness ==
    /\ cal.fitted /\ cal.raw_low = cal.raw_high
    /\ cal.ch = "fixed" /\ calFile.present /\ calFile.writes = 1
    /\ calibration["adjustable"] # DefaultLine

\* C11: after a calibration of a rail whose settled counts r0 (wiper 0) and
\* r255 (wiper 255) differ, with the operator's voltages v0 and v255, the
\* stored line gives slope*r0 + intercept = v0 and slope*r255 + intercept
\* = v255 whichever count is larger, read_voltage returns the line's value
\* (v0 at r0, v255 at r255, their mean halfway), and the other rail's record
\* is what it was.
C11_CalibrationFit ==
    (cal.fitted /\ cal.result = "ok" /\ cal.raw_low # cal.raw_high) =>
        LET line == calibration[cal.ch]
        IN  /\ line.num * cal.raw_low + line.icn = cal.v_low * line.den
            /\ line.num * cal.raw_high + line.icn = cal.v_high * line.den
            /\ read_voltage(calibration, cal.ch, cal.raw_low) = cal.v_low
            /\ read_voltage(calibration, cal.ch, cal.raw_high) = cal.v_high
            /\ read_voltage(calibration, cal.ch, (cal.raw_low + cal.raw_high) \div 2)
                   = (cal.v_low + cal.v_high) \div 2
            /\ \A ch \in Channels \ {cal.ch} : calibration[ch] = cal.cal0[ch]

\* counts (1000, 50000) with 0.5 V and 9.0 V: the slope is 8500 mV over
\* 49000 counts and the count 25500 reads 4.75 V
C11_Witness ==
    /\ cal.fitted /\ cal.result = "ok" /\ cal.ch = "adjustable"
    /\ cal.raw_low = 1000 /\ cal.v_low = 500 /\ cal.raw_high = 50000 /\ cal.v_high = 9000
    /\ calibration["adjustable"].num = 8500 /\ calibration["adjustable"].den = 49000
    /\ read_voltage(calibration, "adjustable", 25500) = 4750
    /\ calibration["fixed"] = DefaultLine

\* the larger count at wiper 0: the line is the same
C11_WitnessDescending ==
    /\ cal.fitted /\ cal.result = "ok" /\ cal.ch = "fixed"
    /\ cal.raw_low = 50000 /\ cal.v_low = 500 /\ cal.raw_high = 1000 /\ cal.v_high = 9000
    /\ read_voltage(calibration, "fixed", 1000) = 9000

\* ------------------------------------------------------------------------
\* Manual override and calibration against the regulation tick
\* ------------------------------------------------------------------------

IsTick == lastOp.op \in {"tick", "maintick"}

\* the tick left rail ch alone: wiper as before, no write to its potentiometer
TickLeftAlone(ch) ==
    /\ current_wipers[ch] = lastOp.wipers0[ch]
    /\ \A k \in 1..Len(lastOp.writes) : lastOp.writes[k].pot # PotOf(ch)

\* C12: a regulation tick leaves alone every rail whose automatic mode a
\* setres switched off and no setvolt has switched on again (the tick
\* changes neither flag); and on a rail in automatic mode, outside a
\* calibration, the tick does run: setvolt brings the regulation back and
\* the other rail keeps being regulated.
C12_ManualOverrideFreezes ==
    IsTick =>
        /\ \A ch \in Channels : ~auto_control[ch] => TickLeftAlone(ch)
        /\ (~calibrating /\ \E ch \in Channels : auto_control[ch]) => lastOp.ok

\* setres 0 on the fixed rail, then a tick of voltage_control_step steps
\* the fixed wiper to 1
C12_OverrideIgnored ==
    /\ lastOp.op = "tick" /\ ~auto_control["fixed"]
    /\ lastOp.wipers0["fixed"] = 0 /\ current_wipers["fixed"] = 1
    /\ pots[1] = 1

\* C13: a regulation tick that starts while calibrating is true changes no
\* rail's wiper value, writes no potentiometer and leaves the recorded
\* wipers as they were.
C13_CalibratingTickNoOp ==
    (IsTick /\ calibrating) =>
        /\ \A ch \in Channels : TickLeftAlone(ch)
        /\ lastOp.writes = <<>>

\* a tick during a calibration of the fixed rail, both rails below target:
\* outside a calibration it would step both wipers down
C13_Witness ==
    /\ lastOp.op = "tick" /\ calibrating /\ cal.pc = "prompt_low" /\ cal.ch = "fixed"
    /\ \A ch \in Channels : filtered_voltages[ch] + DeadBand <= target_voltages[ch]
    /\ current_wipers = [ch \in Channels |-> WiperMax]
    /\ pots = [p \in {0, 1} |-> IF p = 1 THEN 0 ELSE WiperMax]

C14_GuardedAtEntry ==
    (lastOp.op = "tickbegin" /\ calibrating) => tick.pc = "idle"

\* ------------------------------------------------------------------------
\* Properties of the two contexts
\* ------------------------------------------------------------------------

\* the bit a completed update of field F to n leaves on stage st, or the
\* bit that was there
BitAfter(F, n, before, st) ==
    IF \E bn \in 0..(Width(F) - 1) : STAGES(F)[bn + 1] = st
    THEN (n \div Pow2(CHOOSE bn \in 0..(Width(F) - 1) : STAGES(F)[bn + 1] = st)) % 2
    ELSE before[st + 1]

\* C15: from the first read of a field update to its final write, no other
\* context drives or samples a line of the 48-bit bus, whatever the
\* scheduler does in between: the chain stays as the update's last step
\* left it, and the completed update has changed the field's stages and no
\* other.
C15_UpdateUninterrupted ==
    /\ upd.pc # "idle" => (upd.foreign \cap SRPins = {} /\ hw = upd.hw)
    /\ (upd.pc = "idle" /\ hist # <<>> /\ Last.cmd = "set" /\ Last.ok) =>
          /\ upd.foreign \cap SRPins = {}
          /\ \A st \in 0..(NBITS - 1) :
                 Latched(hw)[st + 1] = BitAfter(Last.f, Last.arg.n, Last.before, st)

\* an azimuth update completed with the LED refresh, mode pins read, run
\* between its steps
C15_Witness ==
    /\ upd.pc = "idle" /\ hist # <<>> /\ Last.cmd = "set" /\ Last.ok /\ Last.f = "AZ"
    /\ {LED_SER_IN, LED_SRCK, LED_RCK, mode_pins[1]} \subseteq upd.foreign
    /\ Last.before = Ones /\ Latched(hw) # Ones

\* a cycle of the scheduler has run to its end
CycleDone == sched.pc = "toggle" /\ sched.cycles > 0

\* C16: when a regulation tick raises, every rail other than the one it
\* raised at has been processed in that tick; and a cycle in which the LED
\* refresh is due has run it, whatever became of the tick.
C16_FailureIsolated ==
    /\ (IsTick /\ ~lastOp.ok) => \A ch \in Channels \ {lastOp.failed} : ch \in lastOp.done
    /\ (CycleDone /\ sched.due.led) => sched.refreshed

\* the read of the fixed rail raises and the adjustable rail, which is
\* below its target, is neither filtered nor stepped
C16_OtherRailSkipped ==
    /\ lastOp.op = "tick" /\ ~lastOp.ok /\ lastOp.failed = "fixed" /\ lastOp.done = {}
    /\ current_wipers["adjustable"] = WiperMax
    /\ filtered_voltages["adjustable"] + DeadBand <= target_voltages["adjustable"]
    /\ filtered_voltages["adjustable"] > 0

\* the part of C16 about the LED refresh: the LED block comes before the
\* voltage block, and the voltage block catches what the tick raises
C16_RefreshStillRuns ==
    (CycleDone /\ sched.due.led) => sched.refreshed

\* C17: an error raised while a command executes (an unknown command, a
\* wrong number of arguments, a bad value, a failed calibration) is caught
\* and reported: the listener is alive to take the next command and the
\* scheduler loop keeps running.  Only the end of input stops the listener.
C17_CommandErrorsCaught ==
    /\ listener.report \in ErrorReports => listener.alive /\ sched.alive
    /\ listener.errors > 0 /\ listener.report # "exiting" => listener.alive /\ sched.alive
    /\ lastOp.op \in {"setres", "setvolt", "calibrate", "answer"} /\ ~lastOp.ok
         => listener.report \in ErrorReports

\* a calibration failed with an exception the listener caught, and the next
\* command was then accepted and carried out while the scheduler ran a cycle
C17_Witness ==
    /\ cal.result \in {"bad_voltage", "degenerate"}
    /\ listener.errors > 0 /\ listener.alive /\ listener.report = "none"
    /\ lastOp.op = "setres" /\ lastOp.ok
    /\ sched.cycles > 0 /\ sched.pc = "toggle"

C18_WitnessAbsent ==
    /\ lastOp.op = "resetcal" /\ ~cal.file0.present /\ ~calFile.present

\* the persisted record is malformed in some part
Malformed(file) ==
    \/ ~file.present
    \/ file.data.kind # "object"
    \/ \E ch \in Channels :
         \/ file.data.entries[ch].kind = "other"
         \/ /\ file.data.entries[ch].kind = "dict"
            /\ "bad" \in {file.data.entries[ch].slope.kind, file.data.entries[ch].intercept.kind}

\* C19: loading the calibration at startup never raises, and if the
\* persisted record is absent or malformed in any part, the in-memory
\* records of both rails are the nominal defaults afterwards: no partially
\* loaded record remains.
C19_MalformedLoadsDefaults ==
    lastOp.op = "load" /\ Malformed(calFile) => calibration = DefaultCalibration

\* the slope of the adjustable rail's entry is no number: the fixed rail's
\* entry, which comes first, has been loaded all the same
C19_PartiallyLoaded ==
    /\ lastOp.op = "load" /\ lastOp.failed = "caught"
    /\ calFile.data.entries["adjustable"].slope.kind = "bad"
    /\ calibration["fixed"] # DefaultLine
    /\ calibration["adjustable"] = DefaultLine

\* the part of C19 that holds: the load ends without raising whatever the
\* file holds, and a file that is absent or is no JSON object leaves the
\* defaults
C19_LoadCompletes ==
    lastOp.op = "load" =>
        /\ lastOp.ok /\ boot.phase = "imported"
        /\ ~calFile.present \/ calFile.data.kind # "object" => calibration = DefaultCalibration

\* C20: startup validates the wiring table: when the number of stages of a
\* field differs from the field's group size (AZ 24, EL 2, FM 4, AT 3, PE 2,
\* SS 5), startup fails and the state in which commands are served is never
\* reached.
C20_WiringValidated ==
    boot.phase = "serving" =>
        \A F \in FieldSet : GroupSize(WiringTables[boot.table], F) = GroupSizes[F]

\* commands are served on a table whose azimuth group has 23 stages
C20_ServingOnDefectiveTable ==
    /\ boot.phase = "serving" /\ listener.alive /\ listener.served > 0
    /\ GroupSize(WiringTables[boot.table], "AZ") = 23

\* the table of the source has the six group sizes
C20_AsBuiltSizes ==
    boot.table = "as built" =>
        \A F \in FieldSet : /\ GroupSize(WiringTables[boot.table], F) = GroupSizes[F]
                            /\ Len(STAGES(F)) = GroupSizes[F]

\* ------------------------------------------------------------------------
\* Properties of the stage map and the field groups
\* ------------------------------------------------------------------------

\* the stages of a field's group, and the stages of no group
StageSet(F) == {STAGES(F)[k] : k \in 1..Len(STAGES(F))}
AllStages == 0..(Len(STAGE_TO_SIGNAL) - 1)
NonFieldStages == {st \in AllStages : \A F \in FieldSet : st \notin StageSet(F)}
GroundLabels == {"DGND", "SENS"}

\* C21: with the wiring table of the source the six groups have 24 (AZ),
\* 2 (EL), 4 (FM), 3 (AT), 2 (PE) and 5 (SS) stages, which is the number of
\* stages whose signal carries the field's prefix; every stage is in 0..47;
\* the groups are pairwise disjoint; and no stage whose signal is a ground
\* or fixed label (DGND, SENS_OUT) is in a group.
C21_GroupsWellFormed ==
    /\ boot.table = "as built"
    /\ \A F \in FieldSet :
          /\ Len(STAGES(F)) = GroupSizes[F]
          /\ Len(STAGES(F)) = GroupSize(PIN_TO_SIGNAL, F)
          /\ Cardinality(StageSet(F)) = Len(STAGES(F))
          /\ StageSet(F) \subseteq 0..(NBITS - 1)
    /\ \A F, G \in FieldSet : F # G => StageSet(F) \cap StageSet(G) = {}
    /\ \A st \in AllStages :
          STAGE_TO_SIGNAL[st + 1].f \in GroundLabels => st \in NonFieldStages

\* the groups have been used by a command that succeeded on a chain that
\* has ground stages and a sensor stage
C21_Witness ==
    /\ hist # <<>> /\ Last.cmd = "set" /\ Last.f = "AZ" /\ Last.ok
    /\ \E st \in NonFieldStages : STAGE_TO_SIGNAL[st + 1].f = "DGND"
    /\ \E st \in NonFieldStages : STAGE_TO_SIGNAL[st + 1].f = "SENS"

\* the signal that carries bit n of field F: F_nn, and for the power
\* enables the n-th name in the order of the names
SignalOfBit(F, n) ==
    IF F = "PE" THEN (IF n = 0 THEN Sig("PE", 3) ELSE Sig("PE", 8)) ELSE Sig(F, n)

UnwiredPins == {8, 19, 36}

\* C29: STAGE_TO_PIN has exactly 48 entries, no pin appears at two stages,
\* every entry is in 1..50, and none of the three pins that are not wired to
\* the shift registers (8, 19, 36) appears at a stage.
C29_StageMapOntoWiredPins ==
    /\ boot.table = "as built"
    /\ Len(STAGE_TO_PIN) = NBITS
    /\ \A j, k \in 1..Len(STAGE_TO_PIN) : j # k => STAGE_TO_PIN[j] # STAGE_TO_PIN[k]
    /\ \A k \in 1..Len(STAGE_TO_PIN) : STAGE_TO_PIN[k] \in 1..50
    /\ \A k \in 1..Len(STAGE_TO_PIN) : STAGE_TO_PIN[k] \notin UnwiredPins

\* pin 8 is the pin of stage 0, and a command is served on that map
C29_SensorPinAtStageZero ==
    /\ STAGE_TO_PIN[1] = 8 /\ STAGE_TO_SIGNAL[1] = Sig("SENS", 0)
    /\ hist # <<>> /\ Last.cmd = "set" /\ Last.ok

\* what holds of the map: 48 distinct pins of 1..50, pins 19 and 36 at no
\* stage, and stage 0 in no group
C29_StageMapButSensorPin ==
    /\ boot.table = "as built"
    /\ Len(STAGE_TO_PIN) = NBITS
    /\ \A j, k \in 1..Len(STAGE_TO_PIN) : j # k => STAGE_TO_PIN[j] # STAGE_TO_PIN[k]
    /\ \A k \in 1..Len(STAGE_TO_PIN) : STAGE_TO_PIN[k] \in (1..50) \ {19, 36}
    /\ 0 \in NonFieldStages

\* C30: for every register content and every set-field command with any
\* value, the bits at the stages of no group (ground and sensor output) are
\* after the command what they were before it.
C30_NonFieldStagesKept ==
    (hist # <<>> /\ Last.cmd = "set") =>
        \A st \in NonFieldStages : Latched(hw)[st + 1] = Last.before[st + 1]

\* a set command succeeded on a chain whose non-field stages held ones, and
\* changed bits of its field
C30_Witness ==
    /\ hist # <<>> /\ Last.cmd = "set" /\ Last.ok /\ Last.before = Ones
    /\ Latched(hw) # Last.before
    /\ \E st \in NonFieldStages : Latched(hw)[st + 1] = 1

\* ------------------------------------------------------------------------
\* Properties of the wiper records
\* ------------------------------------------------------------------------

\* C22: after any sequence of completed operations (startup, regulation
\* ticks, setres with any pot argument, setvolt, calibrate, calibrate_all),
\* the recorded wiper of each rail, current_wipers[rail], is the last value
\* written to that rail's potentiometer.
C22_RecordedWiperIsWritten ==
    (cal.pc = "idle" /\ tick.pc = "idle") =>
        \A ch \in Channels : current_wipers[ch] = pots[PotOf(ch)]

\* a tick stepped the fixed rail's wiper to 254, and a calibration of that
\* rail then ended well with the potentiometer at 255 and the record at 254
C22_CalibrationNotRecorded ==
    /\ cal.pc = "idle" /\ cal.result = "ok" /\ cal.ch = "fixed"
    /\ pots[PotOf("fixed")] = WiperMax
    /\ current_wipers["fixed"] = WiperMax - 1

\* setres with a word that names no rail wrote pot 0 and recorded nothing
\* for the adjustable rail
C22_SetresWordNotRecorded ==
    /\ lastOp.op = "setres" /\ lastOp.ok
    /\ lastOp.writes = <<[pot |-> 0, value |-> 0]>>
    /\ pots[0] = 0 /\ current_wipers["adjustable"] = WiperMax

\* what holds: a regulation tick records what it writes
C22_TickRecordsItsWrites ==
    lastOp.op = "tick" =>
        \A k \in 1..Len(lastOp.writes) :
            \E ch \in Channels : /\ lastOp.writes[k].pot = PotOf(ch)
                                 /\ lastOp.writes[k].value = current_wipers[ch]

\* ------------------------------------------------------------------------
\* Properties of the calibration flag
\* ------------------------------------------------------------------------

CalEnded == cal.pc = "idle" /\ cal.result \in {"ok", "bad_voltage", "degenerate"}

\* C24: whenever a calibrate or calibrate_all command has ended, with
\* success or with a failure (identical raw counts, a non-numeric operator
\* voltage), the calibration-in-progress flag is false, so later regulation
\* ticks are not suppressed.
C24_FlagClearedWhenCalibrationEnds == CalEnded => ~calibrating

\* a calibration failed on identical counts, the flag stayed set and a later
\* tick did nothing
C24_FlagStuckAfterFailure ==
    /\ cal.pc = "idle" /\ cal.result = "degenerate"
    /\ calibrating
    /\ lastOp.op = "tick" /\ lastOp.writes = <<>> /\ lastOp.done = {}

\* what holds: the flag is cleared by a calibration that ended well
C24_FlagClearedOnSuccess == (cal.pc = "idle" /\ cal.result = "ok") => ~calibrating

\* ------------------------------------------------------------------------
\* Properties of the step a tick makes
\* ------------------------------------------------------------------------

\* the wiper the step rule asks for, from the wiper before the tick and the
\* filtered value the tick computed
SteppedWiper(ch) ==
    LET diff == filtered_voltages[ch] - target_voltages[ch]
        old  == lastOp.wipers0[ch]
    IN  IF Abs(diff) < DeadBand THEN old
        ELSE IF diff > 0 THEN Max(0, Min(WiperMax, old + 1))
        ELSE Max(0, Min(WiperMax, old - 1))

WritesTo(ch) == SelectSeq(lastOp.writes, LAMBDA w : w.pot = PotOf(ch))

StepRule(ch) ==
    /\ current_wipers[ch] = SteppedWiper(ch)
    /\ WritesTo(ch) = IF SteppedWiper(ch) # lastOp.wipers0[ch]
                      THEN <<[pot |-> PotOf(ch), value |-> SteppedWiper(ch)]>>
                      ELSE <<>>

\* C25: for a rail in automatic mode with no calibration in progress, the
\* tick the scheduler runs (main.py:515-522) steps the wiper by one towards
\* the target, clamped to 0..255, when the filtered value is beyond the
\* dead band, and writes the potentiometer exactly once iff the wiper
\* changed; otherwise it writes nothing and keeps the wiper.
C25_SchedulerTickStepRule ==
    (lastOp.op = "maintick" /\ ~calibrating) =>
        \A ch \in Channels : auto_control[ch] => StepRule(ch)

\* the scheduler's tick left a rail in automatic mode alone although its
\* filtered value is beyond the dead band and its wiper is not at the limit
C25_SchedulerTickMadeNoStep ==
    /\ lastOp.op = "maintick" /\ ~calibrating
    /\ \E ch \in Channels :
          /\ auto_control[ch]
          /\ Abs(filtered_voltages[ch] - target_voltages[ch]) >= DeadBand
          /\ SteppedWiper(ch) # lastOp.wipers0[ch]
          /\ current_wipers[ch] = lastOp.wipers0[ch]
          /\ lastOp.writes = <<>> /\ ~lastOp.ok

\* what holds: the rule, for voltage_control_step called with the arguments
\* it takes (main.py:445), on every rail
C25_FunctionStepRule ==
    (lastOp.op = "tick" /\ lastOp.ok /\ ~calibrating) =>
        \A ch \in Channels : StepRule(ch)

\* ------------------------------------------------------------------------
\* Properties of the read-out commands (SpecReadout)
\* ------------------------------------------------------------------------

\* C27: for every register content, the 48-bit integer readcpld reports is
\* the integer n whose LSB-first expansion is the content (the n that
\* cpld_write n puts there), and it is the full value readcommand reports.
C27_ReadoutBitOrder ==
    \A i \in 1..Len(hist) :
        hist[i].cmd = "readcpld" =>
            /\ hist[i].val = BitsValue(hist[i].before)
            /\ (i > 1 /\ hist[i - 1].cmd = "cpld_write" /\ hist[i - 1].ok
                /\ hist[i - 1].arg.t = "int") =>
                   hist[i].val = <<hist[i - 1].arg.n[1], hist[i - 1].arg.n[2]>>
            /\ (i < Len(hist) /\ hist[i + 1].cmd = "readcommand") =>
                   hist[i + 1].val = hist[i].val

\* after cpld_write 1, readcpld reports 0x800000000000
C27_ReadCpldReportsMirrored ==
    /\ Len(hist) = 2
    /\ hist[1].cmd = "cpld_write" /\ hist[1].ok /\ hist[1].arg = [t |-> "int", n |-> <<1, 0, 0>>]
    /\ hist[2].cmd = "readcpld"
    /\ hist[2].ret = OneHot(0)
    /\ hist[2].val = <<0, LimbBase \div 2>>

\* after cpld_write 1, readcommand reports 0x1
C27_ReadCommandReportsNumber ==
    /\ Len(hist) = 2
    /\ hist[1].cmd = "cpld_write" /\ hist[1].ok /\ hist[1].arg = [t |-> "int", n |-> <<1, 0, 0>>]
    /\ hist[2].cmd = "readcommand"
    /\ hist[2].ret = OneHot(0)
    /\ hist[2].val = <<1, 0>>

\* what holds: readcommand reports the integer whose LSB-first expansion is
\* the content, and each field line shows one value twice
C27_ReadCommandBitOrder ==
    \A i \in 1..Len(hist) :
        hist[i].cmd = "readcommand" =>
            /\ hist[i].val = BitsValue(hist[i].before)
            /\ (i > 1 /\ hist[i - 1].cmd = "cpld_write" /\ hist[i - 1].ok
                /\ hist[i - 1].arg.t = "int") =>
                   hist[i].val = <<hist[i - 1].arg.n[1], hist[i - 1].arg.n[2]>>
            /\ \A k \in 1..Len(hist[i].shown) : hist[i].shown[k][2] = hist[i].shown[k][3]
            /\ Latched(hw) = hist[i].before \/ i < Len(hist)

\* what holds: readcpld reports the mirror image of that integer
C27_ReadCpldMirrors ==
    \A i \in 1..Len(hist) :
        hist[i].cmd = "readcpld" => hist[i].val = BitsValue(Reverse(hist[i].before))

\* ------------------------------------------------------------------------
\* Properties of the write protocol (SpecWrite)
\* ------------------------------------------------------------------------

\* C26: in update_shift_registers the latch clock is low during shifting;
\* for each of the 48 bits, in index order 0..47, the serial-data line is set
\* to that bit before the rising edge of the shift clock that shifts it in;
\* exactly 48 shift-clock pulses occur; and the latch clock is pulsed exactly
\* once, after the 48th shift pulse, so that the parallel outputs never show
\* a partially shifted pattern.
C26_WriteProtocolOrder ==
    /\ upd.pc \in {"ser", "clk1", "clk0", "lat1"} =>
          /\ hw.rclk = 0
          /\ hw.latches = 0
          /\ Latched(hw) = upd.before
    /\ upd.pc = "clk1" =>
          /\ hw.ser = upd.pat[upd.n + 1]
          /\ hw.srclk = 0
          /\ hw.shifts = upd.n
    /\ upd.pc = "clk0" =>
          /\ hw.shifts = upd.n + 1
          /\ \A k \in 1..(upd.n + 1) : hw.sh[k] = upd.pat[upd.n + 2 - k]
    /\ upd.pc = "lat1" => hw.shifts = NBITS /\ ShiftPath(hw) = upd.pat
    /\ upd.pc = "lat0" =>
          /\ hw.shifts = NBITS /\ hw.latches = 1 /\ hw.rclk = 1
          /\ Latched(hw) = upd.pat
    /\ (upd.pc = "idle" /\ hist # <<>> /\ Last.cmd = "cpld_write" /\ Last.ok) =>
          /\ hw.shifts = NBITS /\ hw.latches = 1 /\ hw.rclk = 0
          /\ Latched(hw) = upd.pat
          /\ hw = WriteBits(upd.hw, upd.pat)

\* a completed write of a pattern other than the one latched before
C26_Witness ==
    /\ upd.pc = "idle" /\ hist # <<>> /\ Last.cmd = "cpld_write" /\ Last.ok
    /\ hw.shifts = NBITS /\ hw.latches = 1
    /\ upd.before = Ones /\ upd.pat = OneHot(0)
    /\ Latched(hw) = OneHot(0)

\* half way through a write the shift path holds neither pattern and the
\* outputs still show the old one
C26_MidWrite ==
    /\ upd.pc = "clk0" /\ upd.n = NBITS \div 2
    /\ ShiftPath(hw) # upd.before /\ ShiftPath(hw) # upd.pat
    /\ Latched(hw) = upd.before /\ upd.before # upd.pat

\* ------------------------------------------------------------------------
\* Properties of the potentiometer interface (SpecThreads)
\* ------------------------------------------------------------------------

\* C23: under every interleaving of the command context and the scheduler
\* context at most one context is inside a wiper-write transaction
\* (chip-select low, two bytes written, chip-select high) at any time, and a
\* wiper recorded by one context is never overwritten by a stale value the
\* other computed.
C23_TransactionsExclusive ==
    /\ Cardinality(spi.inside) <= 1
    /\ (spi.cmd.recorded /\ spi.cmd.pc = "idle" /\ spi.cmd.key \in Channels) =>
          current_wipers[spi.cmd.key] = spi.cmd.value

\* both threads are between their cs.value(0) and their cs.value(1)
C23_BothInside == spi.inside = Contexts

\* setres recorded wiper 100 for the adjustable rail; its bytes went out
\* after main() had raised chip-select, and the potentiometer holds 255
C23_WriteLost ==
    /\ spi.cmd.pc = "idle" /\ spi.cmd.recorded /\ spi.main.pc = "loop"
    /\ spi.cmd.key = "adjustable" /\ spi.cmd.value = 100
    /\ current_wipers["adjustable"] = 100
    /\ pots[0] = WiperMax
    /\ \E w \in spi.wire : w.by = "cmd" /\ w.cs = 1

\* what holds: a wiper setres has recorded stays recorded, because main()
\* assigns no wiper record
C23_RecordKept ==
    (spi.cmd.recorded /\ spi.cmd.pc = "idle" /\ spi.cmd.key \in Channels) =>
        current_wipers[spi.cmd.key] = spi.cmd.value

\* what holds: chip-select is low exactly while some context is inside
C23_SelectedWhileInside == (spi.cs = 0) => spi.inside # {}

\* ------------------------------------------------------------------------
\* Properties of setres and setvolt (SpecRegulation)
\* ------------------------------------------------------------------------

\* main.py:57 "pot 0=adjustable,1=fixed": the pot arguments that name a rail
NamedPot ==
    [pot \in {"0", "adjustable"} |-> 0] @@ [pot \in {"1", "fixed"} |-> 1]

ValidWiper(value) == value.int /\ 0 <= value.n /\ value.n <= WiperMax

RailsAsBefore ==
    /\ current_wipers = lastOp.wipers0
    /\ auto_control = lastOp.pre.auto
    /\ pots = lastOp.pre.pots

\* C31: setres validates its arguments before acting.  If the pot argument
\* is not 0/'adjustable' or 1/'fixed', or the value is not an integer in
\* 0..255, setres reports an error, writes no potentiometer and leaves every
\* rail's recorded wiper and automatic-mode flag unchanged; with valid
\* arguments exactly the named rail's potentiometer is written.
C31_SetresValidates ==
    lastOp.op = "setres" =>
        IF lastOp.args[1] \in DOMAIN NamedPot /\ ValidWiper(lastOp.args[2])
        THEN /\ lastOp.ok
             /\ lastOp.writes = <<[pot |-> NamedPot[lastOp.args[1]],
                                   value |-> lastOp.args[2].n]>>
        ELSE /\ ~lastOp.ok
             /\ lastOp.writes = <<>>
             /\ RailsAsBefore

\* 'setres 2 0' reported success and wrote 0 to potentiometer 0
C31_UnknownPotWritten ==
    /\ lastOp.op = "setres" /\ lastOp.args = <<"2", IntText(0)>>
    /\ lastOp.ok
    /\ lastOp.writes = <<[pot |-> 0, value |-> 0]>>
    /\ pots[0] = 0 /\ lastOp.pre.pots[0] = WiperMax

\* what holds: the value is validated, and a pot argument that names a rail
\* selects that rail's potentiometer
C31_ValueValidated ==
    lastOp.op = "setres" =>
        /\ ~ValidWiper(lastOp.args[2]) =>
              ~lastOp.ok /\ lastOp.writes = <<>> /\ RailsAsBefore
        /\ (lastOp.args[1] \in DOMAIN NamedPot /\ ValidWiper(lastOp.args[2])) =>
              /\ lastOp.ok
              /\ lastOp.writes = <<[pot |-> NamedPot[lastOp.args[1]],
                                    value |-> lastOp.args[2].n]>>
              /\ \A p \in {0, 1} : p # NamedPot[lastOp.args[1]] => pots[p] = lastOp.pre.pots[p]

\* C33: a successful setvolt for rail r sets r's target to the given
\* voltage, resets r's filtered value and enables automatic mode for r,
\* leaving the other rail's target, filtered value, wiper and mode
\* unchanged; a setvolt with an unknown rail name or a non-numeric voltage
\* reports an error and changes no target, filtered value or mode flag.
\* The reset is the one of the docstring of set_voltage_target, to the new
\* target.
C33_SetvoltEffect ==
    lastOp.op = "setvolt" =>
        LET r == lastOp.args[1]
            v == lastOp.args[2]
        IN  IF r \in Channels /\ v.num
            THEN /\ lastOp.ok
                 /\ target_voltages[r] = v.mv
                 /\ filtered_voltages[r] = v.mv
                 /\ auto_control[r]
                 /\ \A o \in Channels \ {r} :
                       /\ target_voltages[o] = lastOp.pre.targets[o]
                       /\ filtered_voltages[o] = lastOp.pre.filtered[o]
                       /\ current_wipers[o] = lastOp.wipers0[o]
                       /\ auto_control[o] = lastOp.pre.auto[o]
            ELSE /\ ~lastOp.ok
                 /\ target_voltages = lastOp.pre.targets
                 /\ filtered_voltages = lastOp.pre.filtered
                 /\ auto_control = lastOp.pre.auto

\* a successful setvolt left the rail's filtered value as it was, neither
\* the new target nor zero
C33_FilteredNotReset ==
    /\ lastOp.op = "setvolt" /\ lastOp.ok /\ lastOp.args[1] = "fixed"
    /\ target_voltages["fixed"] = lastOp.args[2].mv
    /\ filtered_voltages["fixed"] = lastOp.pre.filtered["fixed"]
    /\ filtered_voltages["fixed"] \notin {0, lastOp.args[2].mv}

\* what holds: everything the claim says but the reset; the filtered values
\* of both rails are left alone
C33_SetvoltButFiltered ==
    lastOp.op = "setvolt" =>
        LET r == lastOp.args[1]
            v == lastOp.args[2]
        IN  /\ filtered_voltages = lastOp.pre.filtered
            /\ current_wipers = lastOp.wipers0
            /\ pots = lastOp.pre.pots
            /\ IF r \in Channels /\ v.num
               THEN /\ lastOp.ok
                    /\ target_voltages = [lastOp.pre.targets EXCEPT ![r] = v.mv]
                    /\ auto_control = [lastOp.pre.auto EXCEPT ![r] = TRUE]
               ELSE /\ ~lastOp.ok
                    /\ target_voltages = lastOp.pre.targets
                    /\ auto_control = lastOp.pre.auto

\* ------------------------------------------------------------------------
\* Properties of the settling loops (SpecSettle)
\* ------------------------------------------------------------------------

\* voltage_control.py:111 and 127
SettleTolerance == 2

Within(a, b) == Abs(a - b) <= SettleTolerance

Polling == cal.pc \in {"poll_low", "poll_high"}
Prompting == cal.pc \in {"prompt_low", "prompt_high"}

\* no two consecutive samples of t up to its n-th are within the tolerance
NoneWithin(t, n) == \A k \in 2..n : ~Within(t[k], t[k - 1])

SettleSafety ==
    /\ (Polling /\ adc.loop = CurrentLoop) => NoneWithin(adc.trace, Len(adc.trace))
    /\ Prompting =>
          /\ Len(adc.trace) >= 2
          /\ Within(adc.trace[Len(adc.trace)], adc.trace[Len(adc.trace) - 1])
          /\ NoneWithin(adc.trace, Len(adc.trace) - 1)
          /\ cal.prev = adc.trace[Len(adc.trace)]
    /\ cal.pc \in {"poll_high", "prompt_high"} => cal.raw_low = adc.low
    /\ (cal.pc = "idle" /\ cal.fitted) => cal.raw_low = adc.low /\ cal.raw_high = adc.high
    /\ adc.scene = "oscillates" => cal.pc \in {"idle", "poll_low"} /\ ~cal.fitted

\* C34: at each calibration endpoint the polling loop ends at the first
\* sample that differs from the sample before it by at most the tolerance (2
\* counts), and the raw count recorded for the endpoint is that later sample;
\* if the samples stabilise the loop terminates; if consecutive samples never
\* come within the tolerance the loop never terminates and the operator is
\* never prompted.
C34_SettlingDetection ==
    /\ []SettleSafety
    /\ (adc.scene # "oscillates" /\ Polling) ~> ~Polling
    /\ [](adc.scene = "oscillates" => [](Polling => []Polling))

\* the low loop of a settling rail ended at its fourth poll, on the sample
\* that is 2 counts from the one before it, after differences of 10, 5 and 3
C34_Witness ==
    /\ cal.pc = "prompt_low" /\ adc.scene = "settles"
    /\ adc.trace = <<1010, 1015, 1018, 1020>>
    /\ cal.prev = 1020 /\ adc.polls = 4

\* an oscillating rail is still polled after five polls
C34_StillPolling ==
    /\ adc.scene = "oscillates" /\ cal.pc = "poll_low"
    /\ adc.polls = 5 /\ adc.trace = <<1000, 1003, 1000, 1003>>


\* ------------------------------------------------------------------------
\* Manual indicator overrides and the scheduler loop (SpecLeds)
\* ------------------------------------------------------------------------

\* the colour the last setled gave indicator i is the colour stored for it
Overridden(i) == auto_update_led[i].manual # None
KeepsOverride(i) == Overridden(i) => leds[i + 1] = auto_update_led[i].manual[1]

\* C32: after setled i <rgb>, the stored colour of indicator i is rgb until
\* the next setled for i, whatever refreshes and heartbeat toggles main()'s
\* loop runs in between.
C32_OverridePersists ==
    \A i \in LedIdx : KeepsOverride(i)

\* setled 3 101, and the heartbeat toggle has since put green into LED 3
C32_ToggleOverwritesLed3 ==
    /\ auto_update_led[3] = [auto |-> FALSE, manual |-> Some(<<1, 0, 1>>)]
    /\ leds[4] = <<0, 1, 0>>
    /\ sched.cycles > 0 /\ sched.due.toggle /\ sched.alive

\* what holds: a refresh leaves an overridden LED 0, 1 or 2 as setled gave
\* it, and the flags are as the last setled left them
C32_RefreshKeepsOverride ==
    /\ \A i \in LedIdx \ {3} : KeepsOverride(i)
    /\ \A i \in LedIdx : auto_update_led[i].auto = ~Overridden(i)

\* C35: main()'s loop runs for ever: what a periodic task raises (the tick,
\* the indicator refresh, the indicator update of the heartbeat toggle) is
\* caught inside the loop and the loop goes on.
C35_LoopNeverEnds ==
    /\ sched.alive
    /\ sched.raised # "none" => sched.pc \in {"led", "volt", "toggle"}

\* update_leds raised in the toggle block and main() has returned
C35_ToggleRaiseEndsLoop ==
    /\ sched.raised = "toggle" /\ ~sched.alive
    /\ sched.due.toggle /\ sched.cycles > 0

\* what holds: what the refresh of the LED block raises and what the tick
\* raises is caught, and the loop ends only on a raise in the toggle block
C35_LedAndTickCaught ==
    /\ sched.raised = "led" => sched.alive
    /\ (lastOp.op = "maintick" /\ ~lastOp.ok /\ sched.raised # "toggle") => sched.alive
    /\ ~sched.alive => sched.raised = "toggle"

====
